---------------------------- MODULE Spec2Model ----------------------------
(***************************************************************************)
(* Model of the catslap template engine: the expression resolver and its   *)
(* ledgers (base/utils.py, base/document.py), the Word directive engine    *)
(* (docx/document.py), the HTML directive engine (html/document.py), the   *)
(* tolerant parser and the serializer (utils/xml.py) and the run-collapse  *)
(* pass (docx/document.py, pptx/document.py).                              *)
(*                                                                         *)
(* Text is a sequence of atoms (short strings); a Python value is a record *)
(* [t, v] tagged with its type.                                            *)
(***************************************************************************)
EXTENDS Integers, Sequences, FiniteSets, TLC

VARIABLES
  engine,          \* "word" | "html" | "pptx" | "xml": which class runs
  elements,        \* Word: the sibling list process_paragraphs walks
  idx,             \* Word: cursor of process_paragraphs; HTML: Sentence.idx
  template,        \* the template as loaded (Word: body.elements, HTML: the tokens)
  out,             \* HTML: the output text built so far
  default_params,  \* Document.default_params
  data,            \* the caller's value map (json)
  access_ok_param_list,
  access_err_param_list,
  max_id,          \* WordDocument.max_id
  error,           \* "none", or the exception that left process_template
  markup,          \* parser: the input text
  source,          \* parser: the document the input text denotes
  tree,            \* parser: parse_text's result
  written,         \* serializer: get_xml of the tree
  xmlPhase,        \* "idle" | "read" | "parsed" | "failed" | "written"
  runs,            \* collapse: the sibling list collapse_paragraphs works on
  collapsePasses,  \* collapse: number of passes applied
  afterFirst,      \* collapse: the sibling list after the first pass
  heap,            \* element tree: the XmlElement objects, a node's id is its index
  forBlocks,       \* element tree: the blocks __get_blocks_until_endfor returned
  forCopies,       \* element tree: for_blocks_copy of each iteration
  treeOp,          \* element tree: the method applied last
  part,            \* process_template: the file read next, [kind, idx]
  parser_max_id,   \* process_template: max_id of the XmlParser in use
  seen_id,         \* process_template: the largest integer id in the files read
  searchStatus,    \* block search: the ProcessStatus
  keywords,        \* block search: the directive keywords visited so far
  signal,          \* block search: what process_directive_keyword returned last
  style_map,       \* Styles.style_map
  num_ids,         \* Numbering: the w:numId of the w:num elements, in order
  new_num_id,      \* Numbering.new_num_id
  returned_ids,    \* Numbering: what add_numbering_start returned, in order
  cell_pos,        \* xlsx: the column and row handed to get_cell_format_position
  rvalue,          \* xlsx: the cell reference
  cell_read        \* xlsx: get_cell_num and get_row_num of the reference

docVars == <<engine, elements, idx, template, out, default_params, data,
             access_ok_param_list, access_err_param_list, max_id, error>>
xmlVars == <<markup, source, tree, written, xmlPhase>>
colVars == <<runs, collapsePasses, afterFirst>>
heapVars == <<heap, forBlocks, forCopies, treeOp>>
partVars == <<part, parser_max_id, seen_id>>
statusVars == <<searchStatus, keywords, signal>>
styleVars == <<style_map>>
numVars == <<num_ids, new_num_id, returned_ids>>
cellVars == <<cell_pos, rvalue, cell_read>>
vars == <<docVars, xmlVars, colVars, heapVars, partVars, statusVars, styleVars, numVars,
          cellVars>>

-----------------------------------------------------------------------------
(* Python values *)

VNone == [t |-> "none", v |-> 0]
VBool(b) == [t |-> "bool", v |-> b]
VInt(n) == [t |-> "int", v |-> n]
\* a float, in tenths
VFloat(n) == [t |-> "float", v |-> n]
VStr(s) == [t |-> "str", v |-> s]
VList(items) == [t |-> "list", v |-> items]
VMap(m) == [t |-> "map", v |-> m]
EmptyMap == <<>>

\* dict[key] = value
Put(m, key, value) == (key :> value) @@ m

\* F applied to the value of x, with x evaluated once (an assignment to a
\* local variable followed by the code that reads it)
Bind(x, F(_)) == CHOOSE y \in {F(v) : v \in {x}} : TRUE

\* str(value), as a sequence of atoms
StrOf(val) ==
  CASE val.t = "str" -> val.v
    [] val.t = "int" -> <<ToString(val.v)>>
    [] val.t = "float" -> <<ToString(val.v \div 10), ".", ToString(val.v % 10)>>
    [] val.t = "bool" -> IF val.v THEN <<"True">> ELSE <<"False">>
    [] val.t = "none" -> <<"None">>
    [] val.t = "list" -> IF val.v = <<>> THEN <<"[]">> ELSE <<"[..]">>
    [] val.t = "map" -> IF DOMAIN val.v = {} THEN <<"{}">> ELSE <<"{..}">>

-----------------------------------------------------------------------------
(* Expressions: a name followed by attribute, index and key accesses *)

Attr(a) == [k |-> "attr", a |-> a, i |-> 0]
Index(i) == [k |-> "idx", a |-> "", i |-> i]
Key(a) == [k |-> "key", a |-> a, i |-> 0]
\* `pad` tells whether the text between the braces carries surrounding blanks
Expr(name, path) == [name |-> name, path |-> path, pad |-> FALSE]
Padded(e) == [e EXCEPT !.pad = TRUE]
\* keyword.strip()
Strip(e) == [e EXCEPT !.pad = FALSE]
NoExpr == Expr("", <<>>)

Raised(exc) == [exc |-> exc, val |-> VNone]
Value(val) == [exc |-> "none", val |-> val]

\* Python's evaluation of the accesses `path` on `val`. `dot` tells whether
\* a map is a DotDict (reached through maps only, so DotDict.create
\* converted it) or a plain dict (an item of a list).
RECURSIVE EvalPath(_, _, _)
EvalPath(val, dot, path) ==
  IF path = <<>> THEN Value(val)
  ELSE LET s == Head(path)
           rest == Tail(path)
       IN CASE s.k = "attr" ->
                 IF val.t = "map" /\ dot
                 THEN EvalPath(IF s.a \in DOMAIN val.v THEN val.v[s.a] ELSE VNone,
                               TRUE, rest)
                 ELSE Raised("AttributeError")
            [] s.k = "idx" ->
                 IF val.t = "list"
                 THEN IF s.i < Len(val.v)
                      THEN EvalPath(val.v[s.i + 1], FALSE, rest)
                      ELSE Raised("IndexError")
                 ELSE IF val.t = "str"
                 THEN IF s.i < Len(val.v)
                      THEN EvalPath(VStr(<<val.v[s.i + 1]>>), FALSE, rest)
                      ELSE Raised("IndexError")
                 ELSE IF val.t = "map" THEN Raised("KeyError")
                 ELSE Raised("TypeError")
            [] s.k = "key" ->
                 IF val.t = "map"
                 THEN IF s.a \in DOMAIN val.v
                      THEN EvalPath(val.v[s.a], dot, rest)
                      ELSE Raised("KeyError")
                 ELSE Raised("TypeError")

\* eval(param, {"__builtins__": None}, DotDict.create(value_map))
Eval(value_map, param) ==
  IF param.name \notin DOMAIN value_map THEN Raised("NameError")
  ELSE EvalPath(value_map[param.name], TRUE, param.path)

CaughtExceptions == {"AttributeError", "NameError", "TypeError"}

\* A row argument is <<>> (None) or <<n>>.
NoRow == <<>>
Row(n) == <<n>>

\* resolve_param_value(value_map, row, param): the value (VNone when
\* unresolved), the value map as the call leaves it, and the exception that
\* escapes, if any.
\* the try block of resolve_param_value, on the map with `row` injected
try_eval(map1, param) ==
  Bind(Eval(map1, param), LAMBDA r :
    IF r.exc = "none" THEN [val |-> r.val, map |-> map1, exc |-> "none"]
    ELSE IF r.exc \in CaughtExceptions
    THEN [val |-> VNone, map |-> map1, exc |-> "none"]
    ELSE [val |-> VNone, map |-> map1, exc |-> r.exc])

resolve_param_value(value_map, row, param) ==
  IF param = NoExpr
  THEN [val |-> VNone, map |-> value_map, exc |-> "none"]
  ELSE Bind(IF row # NoRow /\ DOMAIN value_map # {}
            THEN Put(value_map, "row", VInt(row[1]))
            ELSE value_map,
            LAMBDA map1 : try_eval(map1, param))

\* resolve_param_repeating(value_map, param)
resolve_param_repeating(value_map, param) ==
  Bind(resolve_param_value(value_map, Row(0), param), LAMBDA r :
    [val |-> IF r.val.t = "list" THEN Len(r.val.v) ELSE 0 - 1,
     map |-> r.map, exc |-> r.exc])

-----------------------------------------------------------------------------
(* Document: the resolvers and the parameter ledgers.  A context is the    *)
(* part of the Document object the handlers read and write.                *)

Ctx(dp, dat, ok, err, mid, exc, alias) ==
  [dp |-> dp, data |-> dat, ok |-> ok, err |-> err, max_id |-> mid,
   exc |-> exc, alias |-> alias]

Raise(ctx, exc) == IF ctx.exc = "none" THEN [ctx EXCEPT !.exc = exc] ELSE ctx

InList(list, param) == \E i \in 1..Len(list) : list[i] = param

\* list.append(param) without the membership test
LedgerAppend(list, param) == Append(list, param)

\* if param not in list: list.append(param)
LedgerAdd(list, param) == IF InList(list, param) THEN list ELSE Append(list, param)

\* Document.resolve_value(row, param): the context after the call and the
\* value returned ('' when unresolved); `src` names the map that answered.
\* the second half of resolve_value: self.value_resolver(row, param) and
\* the ledgers, after the default resolver returned None
resolve_value_json(c1, row, param) ==
  Bind(resolve_param_value(c1.data, row, param), LAMBDA u :
    IF u.exc # "none"
    THEN [ctx |-> Raise([c1 EXCEPT !.data = u.map], u.exc), val |-> VNone, src |-> "none"]
    ELSE IF u.val = VNone
    THEN [ctx |-> [c1 EXCEPT !.data = u.map, !.err = LedgerAdd(@, param)],
          val |-> VStr(<<>>), src |-> "none"]
    ELSE [ctx |-> [c1 EXCEPT !.data = u.map, !.ok = LedgerAdd(@, param)],
          val |-> u.val, src |-> "data"])

resolve_value(ctx, row, param) ==
  Bind(resolve_param_value(ctx.dp, row, param), LAMBDA d :
    IF d.exc # "none"
    THEN [ctx |-> Raise([ctx EXCEPT !.dp = d.map, !.alias = ""], d.exc),
          val |-> VNone, src |-> "none"]
    ELSE IF d.val # VNone
    THEN [ctx |-> [ctx EXCEPT !.dp = d.map, !.alias = "", !.ok = LedgerAdd(@, param)],
          val |-> d.val, src |-> "dp"]
    ELSE resolve_value_json([ctx EXCEPT !.dp = d.map, !.alias = ""], row, param))

\* Document.resolve_repeating(param)
\* the second half of resolve_repeating: self.repeating_resolver(param) and
\* the ledgers
resolve_repeating_json(c1, param) ==
  Bind(resolve_param_repeating(c1.data, param), LAMBDA u :
    IF u.exc # "none" THEN [ctx |-> Raise([c1 EXCEPT !.data = u.map], u.exc), val |-> 0 - 1]
    ELSE IF u.val < 0
    THEN [ctx |-> [c1 EXCEPT !.data = u.map, !.err = LedgerAdd(@, param)], val |-> 0 - 1]
    ELSE [ctx |-> [c1 EXCEPT !.data = u.map, !.ok = LedgerAdd(@, param)], val |-> u.val])

resolve_repeating(ctx, param) ==
  Bind(resolve_param_repeating(ctx.dp, param), LAMBDA d :
    IF d.exc # "none"
    THEN [ctx |-> Raise([ctx EXCEPT !.dp = d.map, !.alias = ""], d.exc), val |-> 0 - 1]
    ELSE IF d.val >= 0
    THEN [ctx |-> [ctx EXCEPT !.dp = d.map, !.alias = "", !.ok = LedgerAdd(@, param)],
          val |-> d.val]
    ELSE resolve_repeating_json([ctx EXCEPT !.dp = d.map, !.alias = ""], param))

\* The value at `path` below `val` replaced by `new` (an in-place update of
\* a nested dict or list).
RECURSIVE SetPath(_, _, _)
SetPath(val, path, new) ==
  IF path = <<>> THEN new
  ELSE LET s == Head(path)
       IN IF s.k = "idx"
          THEN VList([val.v EXCEPT ![s.i + 1] = SetPath(@, Tail(path), new)])
          ELSE VMap(Put(val.v, s.a, SetPath(val.v[s.a], Tail(path), new)))

\* item['row'] = pos, for the item at index i of the list `param` names in
\* the map `src` names
SetItemRow(ctx, src, param, i, item) ==
  LET upd(m) == Put(m, param.name,
                    SetPath(m[param.name], Append(param.path, Index(i)), item))
  IN IF src = "dp" THEN [ctx EXCEPT !.dp = upd(@)]
     ELSE IF src = "data" THEN [ctx EXCEPT !.data = upd(@)]
     ELSE ctx

-----------------------------------------------------------------------------
(* Text helpers *)

Lit(s) == [k |-> "lit", s |-> s, e |-> NoExpr]
Ph(e) == [k |-> "ph", s |-> "", e |-> e]

RECURSIVE Lits(_)
Lits(atoms) == IF atoms = <<>> THEN <<>> ELSE <<Lit(Head(atoms))>> \o Lits(Tail(atoms))

RECURSIVE Atoms(_)
Atoms(parts) ==
  IF parts = <<>> THEN <<>>
  ELSE (IF Head(parts).k = "lit" THEN <<Head(parts).s>> ELSE <<>>) \o Atoms(Tail(parts))

Whitespace == {" "}

\* text_util.trim(text) = ''
IsBlank(atoms) == \A i \in 1..Len(atoms) : atoms[i] \in Whitespace

Del(seq, i) == SubSeq(seq, 1, i) \o SubSeq(seq, i + 2, Len(seq))

-----------------------------------------------------------------------------
(* Directives *)

KEYWORD_IF == "if"
KEYWORD_ELSE == "else"
KEYWORD_ENDIF == "endif"
KEYWORD_FOR == "for"
KEYWORD_ENDFOR == "endfor"

\* A `{% keyword arg %}` directive: `e` is the condition of an if or the list
\* of a for, `var` the loop variable, `hasIn` whether the argument of a for
\* holds the ' in ' separator.
Dir(kw, var, e, hasIn) == [kw |-> kw, var |-> var, e |-> e, hasIn |-> hasIn]
If(e) == Dir(KEYWORD_IF, "", e, FALSE)
Else == Dir(KEYWORD_ELSE, "", NoExpr, FALSE)
EndIf == Dir(KEYWORD_ENDIF, "", NoExpr, FALSE)
For(var, e) == Dir(KEYWORD_FOR, var, e, TRUE)
ForNoIn(var) == Dir(KEYWORD_FOR, var, NoExpr, FALSE)
EndFor == Dir(KEYWORD_ENDFOR, "", NoExpr, FALSE)
NoDir == Dir("none", "", NoExpr, FALSE)

\* ProcessStatus.__init__
ProcessStatus == [nifs |-> 0, nfors |-> 0, else_mode |-> FALSE, search |-> "none"]

\* a status with one depth counter for both families: for and endfor count
\* on nifs as if and endif do
process_directive_keyword_one_counter(status, keyword) ==
  LET s1 == CASE keyword \in {"if", "for"} ->
                   [status EXCEPT !.search = IF status.search = "none" /\ status.nifs = 0
                                             THEN keyword ELSE @,
                                  !.nifs = @ + 1, !.nfors = @ + 1]
              [] keyword \in {"endif", "endfor"} ->
                   [status EXCEPT !.nifs = @ - 1, !.nfors = @ - 1]
              [] keyword = "else" ->
                   [status EXCEPT !.else_mode = IF status.nifs = 1 THEN TRUE ELSE @]
              [] OTHER -> status
  IN [status |-> s1,
      found |-> \/ (s1.search = "if" /\ s1.nifs = 0)
                \/ (s1.search = "for" /\ s1.nfors = 0)]

\* ProcessStatus.process_directive_keyword(keyword): the status after the
\* call and the value returned
process_directive_keyword(status, keyword) ==
  LET s1 == CASE keyword = KEYWORD_IF ->
                   [status EXCEPT !.search = IF status.search = "none" /\ status.nifs = 0
                                             THEN keyword ELSE @,
                                  !.nifs = @ + 1]
              [] keyword = KEYWORD_ENDIF -> [status EXCEPT !.nifs = @ - 1]
              [] keyword = KEYWORD_ELSE ->
                   [status EXCEPT !.else_mode = IF status.nifs = 1 THEN TRUE ELSE @]
              [] keyword = KEYWORD_FOR ->
                   [status EXCEPT !.search = IF status.search = "none" /\ status.nfors = 0
                                             THEN keyword ELSE @,
                                  !.nfors = @ + 1]
              [] keyword = KEYWORD_ENDFOR -> [status EXCEPT !.nfors = @ - 1]
              [] OTHER -> status
  IN [status |-> s1,
      found |-> \/ (s1.search = KEYWORD_IF /\ s1.nifs = 0)
                \/ (s1.search = KEYWORD_FOR /\ s1.nfors = 0)]

-----------------------------------------------------------------------------
(* Word: the elements of a sibling list.  A tag carries the directives its *)
(* w:t descendants hold (in document order), the text of each of its runs  *)
(* (a sequence of literal atoms and placeholders) and its `id` attribute   *)
(* (0: none).                                                              *)

Tag(kind, dirs, rs, id) == [kind |-> kind, dirs |-> dirs, runs |-> rs, id |-> id]
\* a w:p holding one directive
DirP(d) == Tag("p", <<d>>, <<>>, 0)
\* a w:p with one run
TextP(parts) == Tag("p", <<>>, <<parts>>, 0)
\* a w:p with one run and an id attribute
IdP(parts, id) == Tag("p", <<>>, <<parts>>, id)
\* an XmlText between the paragraphs
TextNode == Tag("text", <<>>, <<>>, 0)

IsXmlTag(element) == element.kind # "text"

\* WordDocument.__get_directive(tag): the first directive below the tag
get_directive(tag) ==
  IF ~IsXmlTag(tag) \/ tag.dirs = <<>> THEN NoDir ELSE Head(tag.dirs)

\* WordDocument.__process_directive_with_status(tag, status)
process_directive_with_status(tag, status) ==
  LET d == get_directive(tag)
  IN IF d # NoDir THEN process_directive_keyword(status, d.kw)
     ELSE [status |-> status, found |-> FALSE]

\* the while loop of __get_blocks_until_endif
RECURSIVE until_endif(_, _, _, _, _)
until_endif(is_true, els, i, status, if_blocks) ==
  IF i >= Len(els) THEN [els |-> els, blocks |-> if_blocks, found |-> FALSE]
  ELSE IF ~IsXmlTag(els[i + 1])
  THEN Bind(Del(els, i), LAMBDA e : until_endif(is_true, e, i, status, if_blocks))
  ELSE Bind(process_directive_with_status(els[i + 1], status), LAMBDA r :
         IF r.found THEN [els |-> Del(els, i), blocks |-> if_blocks, found |-> TRUE]
         ELSE IF r.status.else_mode # is_true
         THEN Bind(Append(if_blocks, els[i + 1]), LAMBDA blocks :
                until_endif(is_true, els, i + 1, r.status, blocks))
         ELSE Bind(Del(els, i), LAMBDA e :
                until_endif(is_true, e, i, r.status, if_blocks)))

\* WordDocument.__get_blocks_until_endif(is_true, elements, idx)
get_blocks_until_endif(is_true, els, i) ==
  Bind(process_directive_with_status(els[i + 1],
                                     [ProcessStatus EXCEPT !.search = KEYWORD_IF]),
       LAMBDA r : Bind(Del(els, i), LAMBDA e : until_endif(is_true, e, i, r.status, <<>>)))

\* the while loop of __get_blocks_until_endfor
RECURSIVE until_endfor(_, _, _, _)
until_endfor(els, i, status, for_blocks) ==
  IF i >= Len(els) THEN [els |-> els, blocks |-> for_blocks, found |-> FALSE]
  ELSE IF ~IsXmlTag(els[i + 1])
  THEN Bind(Del(els, i), LAMBDA e : until_endfor(e, i, status, for_blocks))
  ELSE Bind(process_directive_with_status(els[i + 1], status), LAMBDA r :
         IF r.found THEN [els |-> Del(els, i), blocks |-> for_blocks, found |-> TRUE]
         ELSE Bind(<<Del(els, i), Append(for_blocks, els[i + 1])>>, LAMBDA t :
                until_endfor(t[1], i, r.status, t[2])))

\* WordDocument.__get_blocks_until_endfor(elements, idx)
get_blocks_until_endfor(els, i) ==
  Bind(process_directive_with_status(els[i + 1],
                                     [ProcessStatus EXCEPT !.search = KEYWORD_FOR]),
       LAMBDA r : Bind(Del(els, i), LAMBDA e : until_endfor(e, i, r.status, <<>>)))

\* The text of one w:t after WordDocument.__resolve_text_value replaced its
\* placeholders, from the part at position p on: the context and the text
\* after the call.
RECURSIVE resolve_parts(_, _, _, _, _)
resolve_parts(ctx, row, parts, p, acc) ==
  IF p > Len(parts) \/ ctx.exc # "none" THEN [ctx |-> ctx, parts |-> acc]
  ELSE IF parts[p].k = "lit"
  THEN Bind(Append(acc, parts[p]), LAMBDA a : resolve_parts(ctx, row, parts, p + 1, a))
  ELSE Bind(resolve_value(ctx, row, parts[p].e), LAMBDA v :
         Bind(acc \o Lits(StrOf(v.val)), LAMBDA a :
           resolve_parts(v.ctx, row, parts, p + 1, a)))

HasPlaceholder(parts) == \E i \in 1..Len(parts) : parts[i].k = "ph"

\* WordDocument.__resolve_text_value(row, block) on a w:t
resolve_text_value_t(ctx, row, parts) ==
  IF parts = <<>>
  THEN [ctx |-> ctx, parts |-> parts, sometext |-> FALSE, somedollar |-> FALSE,
        sometextdollar |-> FALSE]
  ELSE IF ~HasPlaceholder(parts)
  THEN [ctx |-> ctx, parts |-> parts, sometext |-> ~IsBlank(Atoms(parts)),
        somedollar |-> FALSE, sometextdollar |-> FALSE]
  ELSE Bind(resolve_parts(ctx, row, parts, 1, <<>>), LAMBDA r :
         IF r.ctx.exc # "none"
         THEN [ctx |-> r.ctx, parts |-> parts, sometext |-> FALSE, somedollar |-> FALSE,
               sometextdollar |-> FALSE]
         ELSE [ctx |-> r.ctx, parts |-> r.parts,
               sometext |-> Atoms(r.parts) # Atoms(parts), somedollar |-> TRUE,
               sometextdollar |-> Atoms(r.parts) # Atoms(parts)])

\* WordDocument.__resolve_text_value(row, block) on a tag above the w:t: the
\* while loop over its runs, from the i-th on
\* sometext, somedollar, sometextdollar: the three flags it returns
Flags(sometext, somedollar, sometextdollar) ==
  [sometext |-> sometext, somedollar |-> somedollar, sometextdollar |-> sometextdollar]
NoFlags == Flags(FALSE, FALSE, FALSE)
\* sometext = sometext0 or sometext, and so for the other two
OrFlags(f0, f) ==
  Flags(f0.sometext \/ f.sometext, f0.somedollar \/ f.somedollar,
        f0.sometextdollar \/ f.sometextdollar)

RECURSIVE resolve_runs(_, _, _, _, _)
resolve_runs(ctx, row, rs, i, f) ==
  IF i > Len(rs) \/ ctx.exc # "none"
  THEN [ctx |-> ctx, runs |-> rs, sometext |-> f.sometext, somedollar |-> f.somedollar,
        sometextdollar |-> f.sometextdollar]
  ELSE Bind(resolve_text_value_t(ctx, row, rs[i]), LAMBDA t :
         Bind([rs EXCEPT ![i] = t.parts], LAMBDA rs2 :
           resolve_runs(t.ctx, row, rs2, i + 1, OrFlags(t, f))))

\* a w:tbl: its rows, each the sequence of its cells, each the sequence of
\* the paragraphs of the cell
Tbl(rows) == [kind |-> "tbl", dirs |-> <<>>, runs |-> <<>>, id |-> 0, rows |-> rows]
\* a w:sdt holding tables
Sdt(tbls) == [kind |-> "sdt", dirs |-> <<>>, runs |-> <<>>, id |-> 0, tbls |-> tbls]

RECURSIVE resolve_paragraphs(_, _, _, _, _)
RECURSIVE resolve_cells(_, _, _, _, _)
RECURSIVE resolve_rows(_, _, _, _, _)
RECURSIVE resolve_tables(_, _, _, _, _)
RECURSIVE resolve_text_value(_, _, _)

\* the while loop of __resolve_text_value over the paragraphs of a w:tc
resolve_paragraphs(ctx, row, paras, i, f) ==
  IF i > Len(paras) \/ ctx.exc # "none" THEN [ctx |-> ctx, els |-> paras, f |-> f]
  ELSE Bind(resolve_text_value(ctx, row, paras[i]), LAMBDA r :
         Bind([paras EXCEPT ![i] = r.block], LAMBDA ps :
           resolve_paragraphs(r.ctx, row, ps, i + 1, OrFlags(r, f))))

\* the while loop of __resolve_text_value over the cells of a w:tr
resolve_cells(ctx, row, cells, i, f) ==
  IF i > Len(cells) \/ ctx.exc # "none" THEN [ctx |-> ctx, els |-> cells, f |-> f]
  ELSE Bind(resolve_paragraphs(ctx, row, cells[i], 1, NoFlags), LAMBDA r :
         Bind([cells EXCEPT ![i] = r.els], LAMBDA cs :
           resolve_cells(r.ctx, row, cs, i + 1, OrFlags(r.f, f))))

\* the while loop of __resolve_text_value over the rows of a w:tbl: a w:tr
\* whose cells resolved some `{{` and no text out of one is deleted
resolve_rows(ctx, row, rows, i, f) ==
  IF i > Len(rows) \/ ctx.exc # "none" THEN [ctx |-> ctx, els |-> rows, f |-> f]
  ELSE Bind(resolve_cells(ctx, row, rows[i], 1, NoFlags), LAMBDA r :
         IF r.ctx.exc # "none" THEN [ctx |-> r.ctx, els |-> rows, f |-> f]
         ELSE IF ~r.f.sometextdollar /\ r.f.somedollar
         THEN Bind(SubSeq(rows, 1, i - 1) \o SubSeq(rows, i + 1, Len(rows)), LAMBDA rs :
                resolve_rows(r.ctx, row, rs, i, f))
         ELSE Bind([rows EXCEPT ![i] = r.els], LAMBDA rs :
                resolve_rows(r.ctx, row, rs, i + 1, OrFlags(r.f, f))))

\* the while loop of __resolve_text_value over the tables of a tag: a w:tbl
\* is deleted by the same test
resolve_tables(ctx, row, tbls, i, f) ==
  IF i > Len(tbls) \/ ctx.exc # "none" THEN [ctx |-> ctx, els |-> tbls, f |-> f]
  ELSE Bind(resolve_rows(ctx, row, tbls[i], 1, NoFlags), LAMBDA r :
         IF r.ctx.exc # "none" THEN [ctx |-> r.ctx, els |-> tbls, f |-> f]
         ELSE IF ~r.f.sometextdollar /\ r.f.somedollar
         THEN Bind(SubSeq(tbls, 1, i - 1) \o SubSeq(tbls, i + 1, Len(tbls)), LAMBDA ts :
                resolve_tables(r.ctx, row, ts, i, f))
         ELSE Bind([tbls EXCEPT ![i] = r.els], LAMBDA ts :
                resolve_tables(r.ctx, row, ts, i + 1, OrFlags(r.f, f))))

resolve_text_value(ctx, row, block) ==
  IF block.kind = "sdt"
  THEN Bind(resolve_tables(ctx, row, block.tbls, 1, NoFlags), LAMBDA r :
         [ctx |-> r.ctx, block |-> [block EXCEPT !.tbls = r.els],
          sometext |-> r.f.sometext, somedollar |-> r.f.somedollar,
          sometextdollar |-> r.f.sometextdollar])
  ELSE Bind(resolve_runs(ctx, row, block.runs, 1, NoFlags), LAMBDA r :
         [ctx |-> r.ctx, block |-> [block EXCEPT !.runs = r.runs],
          sometext |-> r.sometext, somedollar |-> r.somedollar,
          sometextdollar |-> r.sometextdollar])

\* a paragraph judged by its first run only
is_paragraph_empty_first_run(para_tag) ==
  /\ para_tag.runs # <<>>
  /\ IsBlank(Atoms(para_tag.runs[1]))

\* WordDocument.__is_paragraph_empty(para_tag)
is_paragraph_empty(para_tag) ==
  /\ para_tag.runs # <<>>
  /\ \A i \in 1..Len(para_tag.runs) : IsBlank(Atoms(para_tag.runs[i]))

\* the truth of an if condition in __process_paragraph
word_is_true(if_value) ==
  CASE if_value.t = "bool" -> if_value.v
    [] if_value.t = "int" -> if_value.v # 0
    [] if_value.t = "list" -> Len(if_value.v) > 0
    [] OTHER -> StrOf(if_value) # <<>>

RECURSIVE SetToSeq(_)
SetToSeq(S) ==
  IF S = {} THEN <<>> ELSE LET x == CHOOSE y \in S : TRUE IN <<x>> \o SetToSeq(S \ {x})

\* the values `for varvalue in for_list` yields
Iterable(val) == val.t \in {"list", "str", "map"}
IterItems(val) ==
  CASE val.t = "list" -> val.v
    [] val.t = "str" -> [i \in 1..Len(val.v) |-> VStr(<<val.v[i]>>)]
    [] val.t = "map" -> LET keys == SetToSeq(DOMAIN val.v)
                        IN [i \in 1..Len(keys) |-> VStr(<<keys[i]>>)]
    [] OTHER -> <<>>

Moved(ctx, els, i) == [ctx |-> ctx, els |-> els, idx |-> i]

\* WordDocument.__process_paragraph(elements, idx): the context, the sibling
\* list and the index returned
RECURSIVE process_paragraph(_, _, _)
RECURSIVE process_blocks(_, _, _)
RECURSIVE for_iterations(_, _, _, _, _, _, _)

\* while idx2 < len(for_blocks_copy): idx2 = __process_paragraph(for_blocks_copy, idx2)
process_blocks(ctx, els, i) ==
  IF ctx.exc # "none" \/ i >= Len(els) THEN [ctx |-> ctx, els |-> els]
  ELSE Bind(process_paragraph(ctx, els, i), LAMBDA r : process_blocks(r.ctx, r.els, r.idx))

\* default_params[for_varname] = varvalue and varvalue['row'] = row
bind_varvalue(ctx, d, src, varvalue, row) ==
  IF varvalue.t = "map"
  THEN Bind(VMap(Put(varvalue.v, "row", VInt(row))), LAMBDA item :
         SetItemRow([ctx EXCEPT !.dp = Put(@, d.var, item)], src, d.e, row - 1, item))
  ELSE [ctx EXCEPT !.dp = Put(@, d.var, varvalue)]

\* the body of `for varvalue in for_list`, from the row-th of the values on
for_iterations(ctx, d, src, items, row, for_blocks, acc) ==
  IF ctx.exc # "none" \/ row > Len(items) THEN [ctx |-> ctx, out |-> acc]
  ELSE Bind(bind_varvalue(ctx, d, src, items[row], row), LAMBDA c :
         Bind(process_blocks(c, for_blocks, 0), LAMBDA r :
           Bind(acc \o r.els, LAMBDA a :
             for_iterations(r.ctx, d, src, items, row + 1, for_blocks, a))))

\* __get_for_values without the check of the ' in ' separator
get_for_values_unchecked(ctx, d) == ctx

\* WordDocument.__get_for_values(param): raises when ' in ' is missing
get_for_values(ctx, d) == IF ~d.hasIn THEN Raise(ctx, "RuntimeError") ELSE ctx

\* elements[idx:idx] = out and the rest of the for branch
for_insert(r, d, els, i) ==
  IF r.ctx.exc # "none" THEN Moved(r.ctx, els, i)
  ELSE Moved([r.ctx EXCEPT !.dp = Put(@, d.var, VMap(EmptyMap))],
             SubSeq(els, 1, i) \o r.out \o SubSeq(els, i + 1, Len(els)),
             i + Len(r.out))

process_for(ctx, els, i, d) ==
  Bind(get_for_values(ctx, d), LAMBDA g :
    IF g.exc # "none" THEN Moved(g, els, i)
    ELSE Bind(resolve_value(g, NoRow, d.e), LAMBDA v :
           IF v.ctx.exc # "none" THEN Moved(v.ctx, els, i)
           ELSE Bind(get_blocks_until_endfor(els, i), LAMBDA b :
                  IF ~Iterable(v.val) THEN Moved(Raise(v.ctx, "TypeError"), b.els, i)
                  ELSE Bind(for_iterations(v.ctx, d, v.src, IterItems(v.val), 1,
                                           b.blocks, <<>>),
                            LAMBDA r : for_insert(r, d, b.els, i)))))

process_if(ctx, els, i, d) ==
  Bind(resolve_value(ctx, NoRow, d.e), LAMBDA v :
    IF v.ctx.exc # "none" THEN Moved(v.ctx, els, i)
    ELSE Moved(v.ctx, get_blocks_until_endif(word_is_true(v.val), els, i).els, i))

RECURSIVE table_cells(_, _, _)
\* __process_table below a w:tr: process_paragraphs(tc) on each of its cells
table_cells(ctx, cells, i) ==
  IF i > Len(cells) \/ ctx.exc # "none" THEN [ctx |-> ctx, els |-> cells]
  ELSE Bind(process_blocks(ctx, cells[i], 0), LAMBDA r :
         Bind([cells EXCEPT ![i] = r.els], LAMBDA cs : table_cells(r.ctx, cs, i + 1)))

RECURSIVE table_rows(_, _, _)
\* __process_table below a w:tbl
table_rows(ctx, rows, i) ==
  IF i > Len(rows) \/ ctx.exc # "none" THEN [ctx |-> ctx, els |-> rows]
  ELSE Bind(table_cells(ctx, rows[i], 1), LAMBDA r :
         Bind([rows EXCEPT ![i] = r.els], LAMBDA rs : table_rows(r.ctx, rs, i + 1)))

\* WordDocument.__process_table(tag) on a w:tbl and the rest of that branch
\* of __process_paragraph
process_table(ctx, els, i) ==
  Bind(table_rows(ctx, els[i + 1].rows, 1), LAMBDA r :
    Moved(r.ctx, [els EXCEPT ![i + 1].rows = r.els],
          IF r.ctx.exc # "none" THEN i ELSE i + 1))

\* the paragraph without directive: resolves its text and deletes it when
\* nothing is left of it
process_text(ctx, els, i) ==
  Bind(resolve_text_value(ctx, NoRow, els[i + 1]), LAMBDA r :
    IF r.ctx.exc # "none" THEN Moved(r.ctx, [els EXCEPT ![i + 1] = r.block], i)
    ELSE IF els[i + 1].kind = "p" /\ r.somedollar /\ is_paragraph_empty(r.block)
    THEN Moved(r.ctx, Del(els, i), i)
    ELSE Moved(r.ctx, [els EXCEPT ![i + 1] = r.block], i + 1))

process_paragraph(ctx, els, i) ==
  IF ~IsXmlTag(els[i + 1]) THEN Moved(ctx, Del(els, i), i)
  ELSE IF els[i + 1].kind = "p" /\ get_directive(els[i + 1]) # NoDir
  THEN Bind(get_directive(els[i + 1]), LAMBDA d :
         CASE d.kw = KEYWORD_IF -> process_if(ctx, els, i, d)
           [] d.kw = KEYWORD_FOR -> process_for(ctx, els, i, d)
           [] OTHER -> Moved(ctx, Del(els, i), i))
  ELSE IF els[i + 1].kind = "tbl" THEN process_table(ctx, els, i)
  ELSE process_text(ctx, els, i)

-----------------------------------------------------------------------------
(* HTML: the template is a sequence of tokens: a character of text, a      *)
(* `{{expr}}` placeholder or a `{% %}` directive.                          *)

Txt(s) == [k |-> "txt", s |-> s, e |-> NoExpr, d |-> NoDir]
Plh(e) == [k |-> "ph", s |-> "", e |-> e, d |-> NoDir]
Drv(d) == [k |-> "dir", s |-> "", e |-> NoExpr, d |-> d]

\* HtmlDocument.find_end_for / find_end_if, from Sentence.idx = pos with
\* n blocks open: the index returned and Sentence.idx after the call
RECURSIVE find_end(_, _, _, _, _)
find_end(content, pos, n, opening, closing) ==
  IF pos >= Len(content) \/ n <= 0 THEN [idx3 |-> pos, next |-> pos]
  ELSE IF content[pos + 1].k = "dir" /\ content[pos + 1].d.kw = closing
  THEN IF n - 1 = 0 THEN [idx3 |-> pos, next |-> pos + 1]
       ELSE find_end(content, pos + 1, n - 1, opening, closing)
  ELSE IF content[pos + 1].k = "dir" /\ content[pos + 1].d.kw = opening
  THEN find_end(content, pos + 1, n + 1, opening, closing)
  ELSE find_end(content, pos + 1, n, opening, closing)

find_end_for(content, pos) == find_end(content, pos, 1, KEYWORD_FOR, KEYWORD_ENDFOR)
find_end_if(content, pos) == find_end(content, pos, 1, KEYWORD_IF, KEYWORD_ENDIF)

\* the truth of an if condition in __process_html_fragment
html_is_true(value) ==
  \/ (value.t = "str" /\ ~IsBlank(value.v))
  \/ (value.t = "bool" /\ value.v)
  \/ (value.t = "int" /\ value.v # 0)
  \/ (value.t = "list" /\ Len(value.v) > 0)
  \/ value.t = "map"
  \/ (value.t = "float" /\ value.v # 0)

Emitted(ctx, text, next) == [ctx |-> ctx, out |-> text, next |-> next]

\* HtmlDocument.__process_html_fragment(html_content, row), from
\* Sentence.idx = pos on, with `acc` the text put out so far
RECURSIVE html_loop(_, _, _, _, _)
\* the body of `for row2 in range(0, total)`, from row2 on
RECURSIVE html_iterations(_, _, _, _, _, _, _, _)

process_html_fragment(ctx, html_content, row) == html_loop(ctx, html_content, 0, row, <<>>)

\* value2 = value[row2] ...; default_params[varname1] = value2;
\* value2['row'] = pos
html_bind(ctx, d, src, value, row2) ==
  Bind(IF value.t = "list" /\ row2 < Len(value.v) THEN value.v[row2 + 1] ELSE VMap(EmptyMap),
       LAMBDA value2 :
         IF value2.t # "map"
         THEN Raise([ctx EXCEPT !.dp = Put(@, d.var, value2)], "TypeError")
         ELSE Bind(VMap(Put(value2.v, "row", VInt(row2 + 1))), LAMBDA item :
                IF value.t = "list" /\ row2 < Len(value.v)
                THEN SetItemRow([ctx EXCEPT !.dp = Put(@, d.var, item), !.alias = d.var],
                                src, d.e, row2, item)
                ELSE [ctx EXCEPT !.dp = Put(@, d.var, item), !.alias = d.var]))

html_iterations(ctx, d, src, value, total, row2, sub_content, acc) ==
  IF ctx.exc # "none" \/ row2 >= total THEN [ctx |-> ctx, out |-> acc]
  ELSE Bind(html_bind(ctx, d, src, value, row2), LAMBDA c :
         IF c.exc # "none" THEN [ctx |-> c, out |-> acc]
         ELSE Bind(process_html_fragment(c, sub_content, Row(row2)), LAMBDA r :
                Bind(acc \o r.out, LAMBDA a :
                  html_iterations(r.ctx, d, src, value, total, row2 + 1, sub_content, a))))

\* value2['row'] = pos after the loop: value2 is the last item of the list
html_after_loop(ctx, d, src, value, total) ==
  IF total <= 0 \/ value.t # "list" \/ total > Len(value.v) THEN ctx
  ELSE Bind(VMap(Put(value.v[total].v, "row", VInt(total + 1))), LAMBDA last :
         Bind(SetItemRow(ctx, src, d.e, total - 1, last), LAMBDA c1 :
           IF ctx.alias = d.var
           THEN [c1 EXCEPT !.dp = Put(@, d.var,
                                      VMap(Put(@[d.var].v, "row", VInt(total + 1))))]
           ELSE c1))

\* the for branch once the block is cut out: total, value and the loop
html_repeat(ctx, d, sub_content, next) ==
  Bind(resolve_repeating(ctx, d.e), LAMBDA t :
    IF t.ctx.exc # "none" THEN Emitted(t.ctx, <<>>, next)
    ELSE Bind(resolve_value(t.ctx, NoRow, d.e), LAMBDA v :
           IF v.ctx.exc # "none" THEN Emitted(v.ctx, <<>>, next)
           ELSE Bind(html_iterations(v.ctx, d, v.src, v.val, t.val, 0, sub_content, <<>>),
                     LAMBDA r :
                       IF r.ctx.exc # "none" THEN Emitted(r.ctx, r.out, next)
                       ELSE Emitted(html_after_loop(r.ctx, d, v.src, v.val, t.val),
                                    r.out, next))))

\* the `for ` branch of __process_html_fragment
html_for(ctx, content, pos, d) ==
  IF ~d.hasIn THEN Emitted(Raise(ctx, "DocumentException"), <<>>, pos)
  ELSE Bind(find_end_for(content, pos + 1), LAMBDA f :
         html_repeat(ctx, d, SubSeq(content, pos + 2, f.idx3), f.next))

\* the `if ` branch of __process_html_fragment
html_if(ctx, content, pos, row, d) ==
  Bind(find_end_if(content, pos + 1), LAMBDA f :
    Bind(resolve_value(ctx, row, d.e), LAMBDA v :
      IF v.ctx.exc # "none" \/ ~html_is_true(v.val) THEN Emitted(v.ctx, <<>>, f.next)
      ELSE Bind(process_html_fragment(v.ctx, SubSeq(content, pos + 2, f.idx3), row),
                LAMBDA r : Emitted(r.ctx, r.out, f.next))))

\* the `{{` branch of __process_html_fragment
html_placeholder(ctx, pos, row, e) ==
  Bind(resolve_value(ctx, row, Strip(e)), LAMBDA v :
    Emitted(v.ctx, IF v.ctx.exc # "none" THEN <<>> ELSE StrOf(v.val), pos + 1))

\* one turn of the while loop of __process_html_fragment
html_turn(ctx, content, pos, row) ==
  Bind(content[pos + 1], LAMBDA tok :
    CASE tok.k = "ph" -> html_placeholder(ctx, pos, row, tok.e)
      [] tok.k = "dir" /\ tok.d.kw = KEYWORD_FOR -> html_for(ctx, content, pos, tok.d)
      [] tok.k = "dir" /\ tok.d.kw = KEYWORD_IF -> html_if(ctx, content, pos, row, tok.d)
      [] tok.k = "dir" -> Emitted(Raise(ctx, "DocumentException"), <<>>, pos + 1)
      [] OTHER -> Emitted(ctx, <<tok.s>>, pos + 1))

html_loop(ctx, content, pos, row, acc) ==
  IF ctx.exc # "none" \/ pos >= Len(content) THEN [ctx |-> ctx, out |-> acc]
  ELSE Bind(html_turn(ctx, content, pos, row), LAMBDA r :
         Bind(acc \o r.out, LAMBDA a : html_loop(r.ctx, content, r.next, row, a)))

-----------------------------------------------------------------------------
(* The documents processed: templates and value maps *)

\* the longest list of the value maps
MaxItems == 2

ItemA == VMap([ok |-> VBool(TRUE), v |-> VStr(<<"A">>)])
ItemB == VMap([ok |-> VBool(FALSE), v |-> VStr(<<"B">>)])

RECURSIVE ListsUpTo(_)
ListsUpTo(n) ==
  IF n = 0 THEN {<<>>}
  ELSE ListsUpTo(n - 1) \cup
       {Append(l, it) : l \in {x \in ListsUpTo(n - 1) : Len(x) = n - 1}, it \in {ItemA, ItemB}}

Missing == [t |-> "missing", v |-> 0]
Opt(key, val) == IF val = Missing THEN EmptyMap ELSE key :> val
Json(xs, c, m) == Opt("xs", xs) @@ Opt("c", c) @@ Opt("m", m)

ListValues == {VList(l) : l \in ListsUpTo(MaxItems)}
ScalarList == VList(<<VStr(<<"a">>), VStr(<<"b">>)>>)
NonListValues == {VStr(<<"a", "b">>), VInt(5), VMap([k |-> VStr(<<"v">>)])}
CondValues ==
  {Missing, VBool(TRUE), VBool(FALSE), VStr(<<>>), VStr(<<"x">>), VStr(<<" ">>), VInt(0),
   VInt(1), VFloat(0), VFloat(15), VList(<<>>), VList(<<ItemA>>), VMap(EmptyMap),
   VMap([k |-> VStr(<<"v">>)])}
MapValues == {Missing, VMap(EmptyMap), VMap([k |-> VStr(<<"v">>)])}

xs == Expr("xs", <<>>)
cond == Expr("c", <<>>)
m_k == Expr("m", <<Attr("k")>>)
Field(var, a) == Expr(var, <<Attr(a)>>)

\* {% for var in xs %}{% if var.ok %}{{var.v}}{% endif %}{% endfor %}
WNested(var) == <<DirP(For(var, xs)), DirP(If(Field(var, "ok"))),
                  TextP(<<Ph(Field(var, "v"))>>), DirP(EndIf), DirP(EndFor)>>
HNested(var) == <<Drv(For(var, xs)), Drv(If(Field(var, "ok"))), Plh(Field(var, "v")),
                  Drv(EndIf), Drv(EndFor)>>

\* Y{% for x in xs %}[{{x.v}}]{% endfor %}Z
WLoop == <<IdP(<<Lit("Y")>>, 5), DirP(For("x", xs)),
           IdP(<<Lit("["), Ph(Field("x", "v")), Lit("]")>>, 7), DirP(EndFor),
           TextP(<<Lit("Z")>>)>>
HLoop == <<Txt("Y"), Drv(For("x", xs)), Txt("["), Plh(Field("x", "v")), Txt("]"),
           Drv(EndFor), Txt("Z")>>

\* {% if c %}A{% else %}B{% endif %}Z
WIfElse == <<DirP(If(cond)), TextP(<<Lit("A")>>), DirP(Else), TextP(<<Lit("B")>>),
             DirP(EndIf), TextP(<<Lit("Z")>>)>>
HIfElse == <<Drv(If(cond)), Txt("A"), Drv(Else), Txt("B"), Drv(EndIf), Txt("Z")>>

\* {% if c %}A{% endif %}Z
WIf == <<DirP(If(cond)), TextP(<<Lit("A")>>), DirP(EndIf), TextP(<<Lit("Z")>>)>>
HIf == <<Drv(If(cond)), Txt("A"), Drv(EndIf), Txt("Z")>>

\* {% if c %}, one paragraph holding {% if d %}X{% endif %}, {% endif %}, Z
WBalanced == <<DirP(If(cond)),
               Tag("p", <<If(Expr("d", <<>>)), EndIf>>, <<<<Lit("X")>>>>, 0),
               DirP(EndIf), TextP(<<Lit("Z")>>)>>

\* one paragraph of one or two runs, then Z; a run is empty, blank, text,
\* {{c}}, blank with {{c}} or text with {{c}}
RunTexts == {<<>>, <<Lit(" ")>>, <<Lit("x")>>, <<Ph(cond)>>, <<Lit(" "), Ph(cond)>>,
             <<Lit("x"), Ph(cond)>>}
WPara(rs) == <<Tag("p", <<>>, rs, 0), TextP(<<Lit("Z")>>)>>
WParas == {WPara(<<r>>) : r \in RunTexts}
            \cup {WPara(<<r1, r2>>) : r1 \in {<<Ph(cond)>>, <<Lit(" ")>>}, r2 \in RunTexts}

\* Y{% if c %}bZ and Y{% for x in xs %}[Z, never closed
WOpenIf == <<TextP(<<Lit("Y")>>), DirP(If(cond)), TextP(<<Lit("b")>>), TextP(<<Lit("Z")>>)>>
HOpenIf == <<Txt("Y"), Drv(If(cond)), Txt("b"), Txt("Z")>>
WOpenFor == <<TextP(<<Lit("Y")>>), DirP(For("x", xs)), TextP(<<Lit("[")>>),
              TextP(<<Lit("Z")>>)>>
HOpenFor == <<Txt("Y"), Drv(For("x", xs)), Txt("["), Txt("Z")>>

\* Y{% for x %}b{% endfor %}Z
WForNoIn == <<TextP(<<Lit("Y")>>), DirP(ForNoIn("x")), TextP(<<Lit("b")>>), DirP(EndFor),
              TextP(<<Lit("Z")>>)>>
HForNoIn == <<Txt("Y"), Drv(ForNoIn("x")), Txt("b"), Drv(EndFor), Txt("Z")>>

\* a{{ m.k }}b{{m.k}}c, then {{ m.k }}, then Z
WRepeat == <<TextP(<<Lit("a"), Ph(Padded(m_k)), Lit("b"), Ph(m_k), Lit("c")>>),
             TextP(<<Ph(Padded(m_k))>>), TextP(<<Lit("Z")>>)>>
HRepeat == <<Txt("a"), Plh(Padded(m_k)), Txt("b"), Plh(m_k), Txt("c"), Plh(Padded(m_k)),
             Txt("Z")>>

\* {% for x in xs %}[{{row}}:{{x.row}}]{% endfor %}
WRowPos == <<DirP(For("x", xs)),
             TextP(<<Lit("["), Ph(Expr("row", <<>>)), Lit(":"), Ph(Field("x", "row")), Lit("]")>>),
             DirP(EndFor)>>
HRowPos == <<Drv(For("x", xs)), Txt("["), Plh(Expr("row", <<>>)), Txt(":"),
             Plh(Field("x", "row")), Txt("]"), Drv(EndFor)>>

\* {{x.v}}|{{x}}#{% for x in xs %}[{{x.v}}]{% endfor %}#{{x.v}}|{{x}}
WAfter == <<TextP(<<Ph(Field("x", "v")), Lit("|"), Ph(Expr("x", <<>>)), Lit("#")>>),
            DirP(For("x", xs)), TextP(<<Lit("["), Ph(Field("x", "v")), Lit("]")>>),
            DirP(EndFor),
            TextP(<<Lit("#"), Ph(Field("x", "v")), Lit("|"), Ph(Expr("x", <<>>))>>)>>
HAfter == <<Plh(Field("x", "v")), Txt("|"), Plh(Expr("x", <<>>)), Txt("#"),
            Drv(For("x", xs)), Txt("["), Plh(Field("x", "v")), Txt("]"), Drv(EndFor),
            Txt("#"), Plh(Field("x", "v")), Txt("|"), Plh(Expr("x", <<>>))>>

\* the expressions of the {{e}}Z templates
Exprs == {Expr("xs", <<Index(0)>>), Expr("xs", <<Index(MaxItems)>>),
          Expr("xs", <<Index(0), Attr("v")>>), Expr("xs", <<Index(0), Key("v")>>),
          Expr("xs", <<Attr("k")>>), Expr("m", <<Attr("k"), Attr("j")>>),
          Expr("m", <<Key("k")>>), Expr("m", <<Key("j")>>), Expr("m", <<Index(0)>>)}
WExpr(e) == <<TextP(<<Lit("<"), Ph(e), Lit(">")>>), TextP(<<Lit("Z")>>)>>
HExpr(e) == <<Txt("<"), Plh(e), Txt(">"), Txt("Z")>>

LoopData == {Json(x, Missing, Missing) : x \in ListValues \cup NonListValues \cup {ScalarList, Missing}}
CondData == {Json(Missing, c, Missing) : c \in CondValues}
\* value maps with an outer x next to the list xs
AfterData ==
  {Opt("xs", x) @@ Opt("x", o) :
     x \in {VList(<<>>), VList(<<ItemA>>), VList(<<ItemA, ItemB>>)},
     o \in {Missing, VMap([v |-> VStr(<<"O">>)]), VStr(<<"S">>)}}
ExprData == {Json(x, Missing, m) : x \in {VList(<<ItemA>>), VList(<<>>), VInt(5), Missing},
                                   m \in MapValues}

\* a w:tc of one paragraph of one run
CellP(parts) == <<TextP(parts)>>
\* the rows of the tables: {{c}}, k, an empty cell, {{c}} beside k
TableRows ==
  {<<CellP(<<Ph(cond)>>)>>, <<CellP(<<Lit("k")>>)>>, <<CellP(<<>>)>>,
   <<CellP(<<Ph(cond)>>), CellP(<<Lit("k")>>)>>,
   <<CellP(<<Lit("k")>>), CellP(<<Ph(cond)>>)>>}
TableRowLists == {<<r>> : r \in TableRows} \cup {<<r1, r2>> : r1 \in TableRows, r2 \in TableRows}
\* a table of the body, a table inside a w:sdt of the body, each before Z
WTables ==
  {<<Tbl(rows), TextP(<<Lit("Z")>>)>> : rows \in TableRowLists}
  \cup {<<Sdt(<<rows>>), TextP(<<Lit("Z")>>)>> : rows \in TableRowLists}
TableData ==
  {Json(Missing, c, Missing) :
     c \in {Missing, VStr(<<>>), VStr(<<"x">>), VStr(<<" ">>), VInt(0)}}

WordCases ==
  ({WNested("row"), WNested("it"), WLoop, WOpenFor, WForNoIn, WRowPos} \X LoopData)
  \cup ({WAfter} \X AfterData)
  \cup (({WIfElse, WIf, WOpenIf, WBalanced} \cup WParas) \X CondData)
  \cup (WTables \X TableData)
  \cup (({WRepeat} \cup {WExpr(e) : e \in Exprs}) \X ExprData)
HtmlCases ==
  ({HNested("row"), HNested("it"), HLoop, HOpenFor, HForNoIn, HRowPos} \X LoopData)
  \cup ({HAfter} \X AfterData)
  \cup ({HIfElse, HIf, HOpenIf} \X CondData)
  \cup (({HRepeat} \cup {HExpr(e) : e \in Exprs}) \X ExprData)

RECURSIVE MaxIdOf(_)
\* XmlParser.max_id after parsing: the largest id attribute of the document
MaxIdOf(els) ==
  IF els = <<>> THEN 0
  ELSE LET rest == MaxIdOf(Tail(els))
       IN IF Head(els).id > rest THEN Head(els).id ELSE rest

-----------------------------------------------------------------------------
(* Processing a document *)

TheCtx == Ctx(default_params, data, access_ok_param_list, access_err_param_list,
              max_id, "none", "")

NoTree == heap = <<>> /\ forBlocks = <<>> /\ forCopies = <<>> /\ treeOp = "none"
NoPart == [kind |-> "none", idx |-> 0]
NoParts == part = NoPart /\ parser_max_id = 0 /\ seen_id = 0
NoSearch == searchStatus = ProcessStatus /\ keywords = <<>> /\ signal = FALSE
NoStyles == style_map = <<>>
NoNumbering == num_ids = <<>> /\ new_num_id = 0 /\ returned_ids = <<>>
NoCell == [cell |-> 0, row |-> 0]
NoCells == cell_pos = NoCell /\ rvalue = <<>> /\ cell_read = NoCell

Idle == /\ markup = <<>> /\ source = <<>> /\ tree = <<>> /\ written = <<>>
        /\ xmlPhase = "idle"
        /\ runs = <<>> /\ collapsePasses = 0 /\ afterFirst = <<>>
        /\ NoTree /\ NoParts /\ NoSearch /\ NoStyles /\ NoNumbering /\ NoCells

\* Document.__init__ and the loading of the template
InitDoc ==
  /\ \/ \E case \in WordCases :
          /\ engine = "word" /\ template = case[1] /\ elements = case[1]
          /\ data = case[2] /\ max_id = MaxIdOf(case[1])
     \/ \E case \in HtmlCases :
          /\ engine = "html" /\ template = case[1] /\ elements = <<>>
          /\ data = case[2] /\ max_id = 0
  /\ idx = 0
  /\ out = <<>>
  /\ default_params = EmptyMap
  /\ access_ok_param_list = <<>>
  /\ access_err_param_list = <<>>
  /\ error = "none"
  /\ Idle

Leave(ctx) ==
  /\ default_params' = ctx.dp
  /\ data' = ctx.data
  /\ access_ok_param_list' = ctx.ok
  /\ access_err_param_list' = ctx.err
  /\ max_id' = ctx.max_id
  /\ error' = ctx.exc

\* one turn of the while loop of WordDocument.process_paragraphs
WordStep ==
  /\ engine = "word" /\ error = "none" /\ idx < Len(elements)
  /\ \E r \in {process_paragraph(TheCtx, elements, idx)} :
        /\ elements' = r.els
        /\ idx' = r.idx
        /\ Leave(r.ctx)
  /\ UNCHANGED <<engine, template, out, xmlVars, colVars, heapVars, partVars,
                 statusVars, styleVars, numVars, cellVars>>

\* one turn of the while loop of __process_html_fragment(html_content, None)
HtmlStep ==
  /\ engine = "html" /\ error = "none" /\ idx < Len(template)
  /\ \E r \in {html_turn(TheCtx, template, idx, NoRow)} :
        /\ out' = out \o r.out
        /\ idx' = r.next
        /\ Leave(r.ctx)
  /\ UNCHANGED <<engine, template, elements, xmlVars, colVars, heapVars, partVars,
                 statusVars, styleVars, numVars, cellVars>>

NextDoc == WordStep \/ HtmlStep

SpecDoc == InitDoc /\ [][NextDoc]_vars

\* the pass ran to the end of the document
Finished ==
  /\ error = "none"
  /\ \/ engine = "word" /\ idx >= Len(elements)
     \/ engine = "html" /\ idx >= Len(template)

\* the pass ran to the end or was left by an exception
Ended == Finished \/ error # "none"

RECURSIVE Flat(_)
Flat(seqs) == IF seqs = <<>> THEN <<>> ELSE Head(seqs) \o Flat(Tail(seqs))

\* the text of the document produced
TextOfTag(tag) == Flat([i \in 1..Len(tag.runs) |-> Atoms(tag.runs[i])])
DocText ==
  IF engine = "html" THEN out
  ELSE Flat([i \in 1..Len(elements) |-> TextOfTag(elements[i])])

-----------------------------------------------------------------------------
(* Properties of the directive engines *)

\* the value the caller bound to xs, without the `row` keys the loops add
XsValue == IF "xs" \in DOMAIN data THEN data["xs"] ELSE Missing
Unrowed(item) == VMap([key \in DOMAIN item.v \ {"row"} |-> item.v[key]])
XsIs(items) ==
  /\ XsValue.t = "list"
  /\ Len(XsValue.v) = Len(items)
  /\ \A i \in 1..Len(items) : XsValue.v[i].t = "map" /\ Unrowed(XsValue.v[i]) = items[i]

\* the text of the clone of the body `[{{x.v}}]` for one item
CloneText(item) ==
  <<"[">> \o (IF item.t = "map" /\ "v" \in DOMAIN item.v THEN StrOf(item.v["v"]) ELSE <<>>)
          \o <<"]">>
ExpectedLoopText ==
  <<"Y">> \o (IF XsValue.t = "list"
              THEN Flat([i \in 1..Len(XsValue.v) |-> CloneText(XsValue.v[i])])
              ELSE <<>>)
          \o <<"Z">>

\* C1: a for block over a list of length N puts N clones of its body at the
\* place of the block, in list order; over an empty list, an unresolved
\* expression or a value that is no list (string, number, map) it puts no
\* clone, and no error is raised.
C1_ForCardinality ==
  (template \in {WLoop, HLoop} /\ Ended) =>
    /\ error = "none"
    /\ DocText = ExpectedLoopText
    /\ engine = "word" =>
         Len(elements) = 2 + (IF XsValue.t = "list" THEN Len(XsValue.v) ELSE 0)

\* C2: {% if c %}A{% else %}B{% endif %} with a boolean c puts out exactly
\* one of A and B, A when c is true and B when c is false, and the else
\* raises no error.
C2_IfElseExactlyOne ==
  (template \in {WIfElse, HIfElse} /\ Ended /\ "c" \in DOMAIN data /\ data["c"].t = "bool") =>
    /\ error = "none"
    /\ DocText = (IF data["c"].v THEN <<"A", "Z">> ELSE <<"B", "Z">>)

Count(list, x) == Cardinality({i \in 1..Len(list) : list[i] = x})

\* the texts of the placeholders of the a{{ m.k }}b{{m.k}}c templates, as the
\* engine hands them to resolve_value (HTML strips them, Word does not)
RepeatTexts == IF engine = "html" THEN {m_k} ELSE {m_k, Padded(m_k)}
MkUnresolved == "m" \notin DOMAIN data \/ "k" \notin DOMAIN data["m"].v

C4_CloneIdsDistinct ==
  (template = WLoop /\ Finished /\ XsValue.t = "list") =>
    /\ \A i \in 2..(Len(elements) - 1) : elements[i].id > MaxIdOf(template)
    /\ \A i, j \in 2..(Len(elements) - 1) : elements[i].id = elements[j].id => i = j

\* C5: {% for row in xs %}{% if row.ok %}{{row.v}}{% endif %}{% endfor %}
\* with xs = [{ok: true, v: "A"}, {ok: false, v: "B"}] resolves to exactly A.
C5_NestedRowResolvesToA ==
  (template \in {WNested("row"), HNested("row")} /\ Ended /\ XsIs(<<ItemA, ItemB>>)) =>
    /\ error = "none"
    /\ DocText = <<"A">>

IsExprTemplate == \E e \in Exprs : template \in {WExpr(e), HExpr(e)}

\* C8: resolving an expression that names a missing key, indexes a list out
\* of range, indexes a value that has no index or mismatches types never
\* raises: the placeholder is replaced by nothing, the expression is
\* recorded in the failed ledger and the pass goes on to the end.
C8_ResolutionNeverRaises ==
  IsExprTemplate =>
    /\ error = "none"
    /\ Finished =>
         /\ DocText[Len(DocText)] = "Z"
         /\ DocText = <<"<", ">", "Z">> => Len(access_err_param_list) = 1

\* C9: an if or a for without its endif or endfor before the end of the
\* sibling list (or of the HTML text) is reported as an error.
C9_UnterminatedReported ==
  (template \in {WOpenIf, WOpenFor, HOpenIf, HOpenFor} /\ Ended) => error # "none"

\* the next turn of the engine meets a for without ' in '
AtForWithoutIn ==
  /\ error = "none"
  /\ \/ /\ engine = "word" /\ idx < Len(elements)
        /\ elements[idx + 1].kind = "p"
        /\ get_directive(elements[idx + 1]).kw = KEYWORD_FOR
        /\ ~get_directive(elements[idx + 1]).hasIn
     \/ /\ engine = "html" /\ idx < Len(template)
        /\ template[idx + 1].k = "dir"
        /\ template[idx + 1].d.kw = KEYWORD_FOR
        /\ ~template[idx + 1].d.hasIn

\* C10: a for whose argument lacks ' in ' raises a fatal error, and when it
\* is raised no sibling has been removed or inserted and nothing was put out.
C10_ForWithoutInIsFatal ==
  [][AtForWithoutIn =>
       /\ error' \in {"RuntimeError", "DocumentException"}
       /\ elements' = elements
       /\ out' = out]_vars

\* C10's case: the Word pass was left by the error of {% for x %}, with the
\* sibling list as it was loaded
C10_Witness ==
  /\ template = WForNoIn /\ error = "RuntimeError" /\ idx = 1
  /\ elements = template

\* C11: resolving an expression has no side effect on the caller's data map:
\* no step of a pass, whatever it resolves (a value or a repetition count),
\* adds a key such as `row` to the map or replaces a value nested in it.
C11_ResolutionLeavesDataUnchanged == [][data' = data]_vars

\* the text [k:k] of the k-th clone of the body [{{row}}:{{x.row}}]
RowPosText(k) == <<"[", ToString(k), ":", ToString(k), "]">>

\* C12: during iteration k (k = 1..N) of a for loop over a list of maps, the
\* position visible to the expressions of the body is k, both under the
\* name `row` and as the `row` key of the loop item: the k-th clone of
\* [{{row}}:{{x.row}}] reads [k:k].
C12_RowIsOneBasedIndex ==
  (template \in {WRowPos, HRowPos} /\ Finished /\ XsValue.t = "list"
     /\ \A i \in 1..Len(XsValue.v) : XsValue.v[i].t = "map") =>
    DocText = Flat([k \in 1..Len(XsValue.v) |-> RowPosText(k)])

\* the value the caller bound to c
CondValue == IF "c" \in DOMAIN data THEN data["c"] ELSE Missing

\* the outcome the condition c is to have: a boolean as it is, a number iff
\* it is not zero, a list iff it is not empty, a map always, an unresolved
\* value never, a string iff it is not the empty string
CondOutcome ==
  CASE CondValue.t = "missing" -> FALSE
    [] CondValue.t = "bool" -> CondValue.v
    [] CondValue.t \in {"int", "float"} -> CondValue.v # 0
    [] CondValue.t = "list" -> Len(CondValue.v) > 0
    [] CondValue.t = "map" -> TRUE
    [] OTHER -> StrOf(CondValue) # <<>>

\* C13: in both engines {% if c %}A{% endif %}Z puts out A exactly when c is
\* true as a boolean, a number other than zero (0 and 0.0 are false), a list
\* that is not empty, a map, or another value whose string form is not
\* empty; an unresolved c is false.
C13_IfTruthiness ==
  (template \in {WIf, HIf} /\ Ended) =>
    /\ error = "none"
    /\ DocText = (IF CondOutcome THEN <<"A", "Z">> ELSE <<"Z">>)

\* the positions of the two # marks of the {{x.v}}|{{x}}#...#{{x.v}}|{{x}}
\* templates in the text produced
Marks == {i \in 1..Len(DocText) : DocText[i] = "#"}
BeforeLoop == SubSeq(DocText, 1, (CHOOSE i \in Marks : \A j \in Marks : i <= j) - 1)
AfterLoop == SubSeq(DocText, (CHOOSE i \in Marks : \A j \in Marks : i >= j) + 1, Len(DocText))

\* C14: once a `for x in xs` loop is over the binding of x is cleared: the
\* lookups of x behind the loop are answered by the outer data map, exactly
\* as the same lookups were before the loop.
C14_LoopVariableCleared ==
  (template \in {WAfter, HAfter} /\ Ended) =>
    /\ error = "none"
    /\ AfterLoop = BeforeLoop

-----------------------------------------------------------------------------
(* Run collapsing: WordDocument.collapse_paragraphs and                    *)
(* PowerPointDocument.collapse_paragraphs.  An element of a sibling list   *)
(* is an XmlText ("text"), a run ("r") with the style of its rPr child     *)
(* ("none": no rPr, "empty": an rPr without children) and the state of its *)
(* t child ("none": no t, "empty": a t without text, "text"), a tag of     *)
(* IGNORABLE_TAGS, a tag of IGNORABLE_EMPTY_TAGS, or another tag ("p",     *)
(* "o") with its children.                                                 *)

El(name, rpr, t, content, kids) ==
  [name |-> name, rpr |-> rpr, t |-> t, content |-> content, preserve |-> FALSE,
   kids |-> kids]
XmlTextEl == El("text", "none", "none", <<>>, <<>>)
Run(rpr, t, content) == El("r", rpr, t, content, <<>>)
Other(name, kids) == El(name, "none", "none", <<>>, kids)

IGNORABLE_TAGS == {"proofErr"}
IGNORABLE_EMPTY_TAGS == {"pPr"}

\* last_t is <<>> (None) or <<i>>: the t of the run at index i
NoT == <<>>

\* the tag once collapse_paragraphs(element.elements) returned: its children
\* collapsed; in Word an empty w:rPr below a run is gone
collapsed_tag(variant, element, kids) ==
  [element EXCEPT !.kids = kids,
                  !.rpr = IF variant = "word" /\ element.name = "r" /\ @ = "empty"
                          THEN "none" ELSE @]

\* the test made on the children as they were before the recursion
ignorable_before(element, tag) ==
  \/ tag.name \in IGNORABLE_TAGS
  \/ (element.kids = <<>> /\ tag.name \in IGNORABLE_EMPTY_TAGS)

\* tag_name in IGNORABLE_TAGS or (len(tags) == 0 and tag_name in
\* IGNORABLE_EMPTY_TAGS), for the element and the tag it is after the recursion
ignorable(element, tag) ==
  \/ tag.name \in IGNORABLE_TAGS
  \/ (tag.kids = <<>> /\ tag.name \in IGNORABLE_EMPTY_TAGS)

\* WordDocument.__is_the_same_rpr: both None, or equal dumps
word_is_the_same_rpr(rpr1, rpr2) == rpr1 = rpr2

\* last_t takes the text ct, gets xml:space="preserve", and the run at idx
\* is deleted
merge_run(els, i, last_t, ct) ==
  Del([els EXCEPT ![last_t[1] + 1] =
         [@ EXCEPT !.t = "text", !.content = @ \o ct, !.preserve = TRUE]], i)

\* the pptx merge of a run whose t has no text: last_t gets
\* xml:space="preserve" and the run at idx is deleted
drop_run(els, i, last_t) ==
  Del([els EXCEPT ![last_t[1] + 1] = [@ EXCEPT !.preserve = TRUE]], i)

Collapsed(els, exc) == [els |-> els, exc |-> exc]

RECURSIVE collapse_paragraphs(_, _)
\* the while loop of collapse_paragraphs, with its idx, last_rpr and last_t
RECURSIVE collapse_loop(_, _, _, _, _)

\* the `if tag_name == WT.TAG_R` branch of WordDocument.collapse_paragraphs
word_collapse_run(els, i, tag, last_rpr, last_t) ==
  IF tag.t = "none" THEN collapse_loop("word", els, i + 1, last_rpr, NoT)
  ELSE IF last_t # NoT /\ word_is_the_same_rpr(last_rpr, tag.rpr)
  THEN IF tag.t = "text"
       THEN Bind(merge_run(els, i, last_t, tag.content), LAMBDA e :
              collapse_loop("word", e, i, last_rpr, last_t))
       ELSE collapse_loop("word", els, i + 1, "none", NoT)
  ELSE collapse_loop("word", els, i + 1, tag.rpr, <<i>>)

\* the `if tag_name == TAG_R` branch of PowerPointDocument.collapse_paragraphs;
\* __is_the_same_rpr calls clone on None when only one of the two is None
pptx_collapse_run(els, i, tag, last_rpr, last_t) ==
  IF tag.t = "none" THEN collapse_loop("pptx", els, i + 1, last_rpr, last_t)
  ELSE IF last_t # NoT /\ (last_rpr = "none") # (tag.rpr = "none")
  THEN Collapsed(els, "AttributeError")
  ELSE IF last_t # NoT /\ last_rpr = tag.rpr
  THEN Bind(IF tag.t = "text" THEN merge_run(els, i, last_t, tag.content)
            ELSE drop_run(els, i, last_t),
            LAMBDA e : collapse_loop("pptx", e, i, last_rpr, last_t))
  ELSE collapse_loop("pptx", els, i + 1, tag.rpr, <<i>>)

\* the body of the loop for an XmlTag, after the recursion into its children
collapse_tag(variant, els, i, element, tag, last_rpr, last_t) ==
  IF ignorable(element, tag)
  THEN Bind(Del(els, i), LAMBDA e : collapse_loop(variant, e, i, last_rpr, last_t))
  ELSE IF tag.name = "r"
  THEN IF variant = "word" THEN word_collapse_run(els, i, tag, last_rpr, last_t)
       ELSE pptx_collapse_run(els, i, tag, last_rpr, last_t)
  ELSE collapse_loop(variant, els, i + 1, last_rpr, last_t)

collapse_loop(variant, els, i, last_rpr, last_t) ==
  IF i >= Len(els) THEN Collapsed(els, "none")
  ELSE IF els[i + 1].name = "text" THEN collapse_loop(variant, els, i + 1, last_rpr, last_t)
  ELSE Bind(collapse_paragraphs(variant, els[i + 1].kids), LAMBDA c :
         Bind(collapsed_tag(variant, els[i + 1], c.els), LAMBDA tag :
           IF c.exc # "none" THEN Collapsed([els EXCEPT ![i + 1] = tag], c.exc)
           ELSE Bind([els EXCEPT ![i + 1] = tag], LAMBDA e :
                  collapse_tag(variant, e, i, els[i + 1], tag, last_rpr, last_t))))

collapse_paragraphs(variant, elements_) == collapse_loop(variant, elements_, 0, "none", NoT)

\* the longest sibling list collapsed
MaxRuns == 3

RunAx == Run("A", "text", <<"x">>)
Siblings ==
  {XmlTextEl, Run("none", "none", <<>>), RunAx, Run("B", "text", <<"x">>),
   Run("none", "text", <<"x">>), Run("A", "empty", <<>>), Run("empty", "text", <<"x">>),
   Other("proofErr", <<>>), Other("pPr", <<>>), Other("pPr", <<Other("proofErr", <<>>)>>),
   Other("p", <<RunAx, RunAx>>), Other("o", <<>>),
   Other("hyperlink", <<Run("A", "text", <<"h">>)>>)}

RECURSIVE SiblingLists(_)
SiblingLists(n) ==
  IF n = 0 THEN {<<>>}
  ELSE SiblingLists(n - 1) \cup
       {Append(l, e) : l \in {x \in SiblingLists(n - 1) : Len(x) = n - 1}, e \in Siblings}

NoDoc ==
  /\ elements = <<>> /\ idx = 0 /\ template = <<>> /\ out = <<>>
  /\ default_params = EmptyMap /\ data = EmptyMap
  /\ access_ok_param_list = <<>> /\ access_err_param_list = <<>>
  /\ max_id = 0 /\ error = "none"

InitCollapse ==
  /\ engine \in {"word", "pptx"}
  /\ runs \in SiblingLists(MaxRuns)
  /\ collapsePasses = 0
  /\ afterFirst = <<>>
  /\ markup = <<>> /\ source = <<>> /\ tree = <<>> /\ written = <<>>
  /\ xmlPhase = "idle"
  /\ NoDoc /\ NoTree /\ NoParts /\ NoSearch /\ NoStyles /\ NoNumbering /\ NoCells

\* self.collapse_paragraphs(blocks), applied once more to the same list
Collapse ==
  /\ collapsePasses < 2 /\ error = "none"
  /\ \E r \in {collapse_paragraphs(engine, runs)} :
        /\ runs' = r.els
        /\ error' = r.exc
        /\ collapsePasses' = IF r.exc = "none" THEN collapsePasses + 1 ELSE collapsePasses
        /\ afterFirst' = IF collapsePasses = 0 /\ r.exc = "none" THEN r.els ELSE afterFirst
  /\ UNCHANGED <<engine, elements, idx, template, out, default_params, data,
                 access_ok_param_list, access_err_param_list, max_id, xmlVars,
                 heapVars, partVars, statusVars, styleVars, numVars, cellVars>>

NextCollapse == Collapse

SpecCollapse == InitCollapse /\ [][NextCollapse]_vars

\* C7: run collapsing is idempotent: applying collapse_paragraphs a second
\* time to a tree leaves the tree the first application produced (same
\* nodes, attributes and text).
C7_CollapseIdempotent == collapsePasses = 2 => runs = afterFirst

\* C7's case: two passes over a list in which the first pass merged runs and
\* deleted an ignorable tag
C7_Witness ==
  /\ collapsePasses = 2
  /\ \E i \in 1..Len(runs) : runs[i].name = "r" /\ runs[i].content = <<"x", "x">>
  /\ \E i \in 1..Len(runs) : runs[i].name = "r" /\ runs[i].t = "empty"

RECURSIVE CollapseText(_)
\* the text of a sibling list in document order
CollapseText(els) ==
  Flat([i \in 1..Len(els) |->
          IF els[i].name = "r" THEN els[i].content ELSE CollapseText(els[i].kids)])

\* C26: a pass of collapse_paragraphs merges a run only into the run right
\* before it, never across another sibling, so the text of the tree in
\* document order is the same before and after the pass.
C26_CollapseKeepsTextOrder ==
  [][collapsePasses' = collapsePasses + 1 => CollapseText(runs') = CollapseText(runs)]_vars

-----------------------------------------------------------------------------
(* utils/xml.py: the tree, the parser and the serializer.  Text is a sequence
   of characters; a position p of the code is the position p + 1 here, so
   that str.find's -1 is 0. *)

\* XmlTag(tagname) and XmlText(content); attrs keeps the dict's insertion order
XmlTag(tagname) ==
  [t |-> "tag", name |-> tagname, attrs |-> <<>>, elements |-> <<>>, content |-> <<>>]
XmlText(content) ==
  [t |-> "text", name |-> <<>>, attrs |-> <<>>, elements |-> <<>>, content |-> content]

HTML_AUTO_END_TAGS ==
  {<<"i", "m", "g">>, <<"b", "r">>, <<"m", "e", "t", "a">>, <<"i", "n", "p", "u", "t">>}

\* a negative start of a slice or of str.find counts from the end of the text
py_start(row, start) ==
  IF start >= 1 THEN start
  ELSE IF Len(row) + start < 1 THEN 1 ELSE Len(row) + start

\* row.find(ch, start)
find(row, ch, start) ==
  LET S == {i \in py_start(row, start)..Len(row) : row[i] = ch}
  IN IF S = {} THEN 0 ELSE CHOOSE i \in S : \A j \in S : i <= j

\* row[a:b]
slice(row, a, b) == SubSeq(row, py_start(row, a), b - 1)

\* while idx < limit and row[idx] not in stop: idx += 1
scan_until(row, from, limit, stop) ==
  LET S == {i \in from..(limit - 1) : row[i] \in stop}
  IN IF S # {} THEN CHOOSE i \in S : \A j \in S : i <= j
     ELSE IF from > limit THEN from ELSE limit

\* while idx < limit and row[idx] in skip: idx += 1
scan_while(row, from, limit, skip) ==
  LET S == {i \in from..(limit - 1) : row[i] \notin skip}
  IN IF S # {} THEN CHOOSE i \in S : \A j \in S : i <= j
     ELSE IF from > limit THEN from ELSE limit

\* row.replace(old, new)
RECURSIVE replace_at(_, _, _, _)
replace_at(row, old, new, i) ==
  IF i > Len(row) THEN <<>>
  ELSE IF i + Len(old) - 1 <= Len(row) /\ SubSeq(row, i, i + Len(old) - 1) = old
       THEN new \o replace_at(row, old, new, i + Len(old))
       ELSE <<row[i]>> \o replace_at(row, old, new, i + 1)

replace(row, old, new) == replace_at(row, old, new, 1)

\* a chain of row = row.replace(old, new), in the order of the pairs
RECURSIVE replace_each(_, _, _)
replace_each(row, pairs, k) ==
  IF k > Len(pairs) THEN row
  ELSE Bind(replace(row, pairs[k][1], pairs[k][2]),
            LAMBDA r : replace_each(r, pairs, k + 1))

\* XmlParser.escape_entities
escape_entities(row) ==
  replace_each(row, << <<<<"&">>, <<"&", "a", "m", "p", ";">>>>,
                       <<<<"<">>, <<"&", "l", "t", ";">>>>,
                       <<<<">">>, <<"&", "g", "t", ";">>>> >>, 1)

\* XmlParser.escape_attr_value
escape_attr_value(row) ==
  replace_each(row, << <<<<"&">>, <<"&", "a", "m", "p", ";">>>>,
                       <<<<"\"">>, <<"&", "q", "u", "o", "t", ";">>>> >>, 1)

\* entities resolved with &amp; first
resolve_entities_amp_first(row) ==
  replace_each(row, << <<<<"&", "a", "m", "p", ";">>, <<"&">>>>,
                       <<<<"&", "#", "x", "D", ";">>, <<"\r">>>>,
                       <<<<"&", "#", "x", "A", ";">>, <<"\n">>>>,
                       <<<<"&", "l", "t", ";">>, <<"<">>>>,
                       <<<<"&", "g", "t", ";">>, <<">">>>>,
                       <<<<"&", "q", "u", "o", "t", ";">>, <<"\"">>>>,
                       <<<<"&", "a", "p", "o", "s", ";">>, <<"'">>>>,
                       <<<<"&", "n", "b", "s", "p", ";">>, <<" ">>>> >>, 1)

\* XmlParser.resolve_entities: &amp; last
resolve_entities(row) ==
  replace_each(row, << <<<<"&", "#", "x", "D", ";">>, <<"\r">>>>,
                       <<<<"&", "#", "x", "A", ";">>, <<"\n">>>>,
                       <<<<"&", "l", "t", ";">>, <<"<">>>>,
                       <<<<"&", "g", "t", ";">>, <<">">>>>,
                       <<<<"&", "q", "u", "o", "t", ";">>, <<"\"">>>>,
                       <<<<"&", "a", "p", "o", "s", ";">>, <<"'">>>>,
                       <<<<"&", "n", "b", "s", "p", ";">>, <<" ">>>>,
                       <<<<"&", "a", "m", "p", ";">>, <<"&">>>> >>, 1)

\* text_util.is_alpha of one character
Letters ==
  {"a", "b", "c", "d", "e", "f", "g", "h", "i", "j", "k", "l", "m", "n", "o",
   "p", "q", "r", "s", "t", "u", "v", "w", "x", "y", "z"}
is_alpha(ch) == ch \in Letters

\* int(attr_value): the value of a text of decimal digits, -1 for ValueError
DigitChars == <<"0", "1", "2", "3", "4", "5", "6", "7", "8", "9">>
RECURSIVE int_at(_, _, _)
int_at(row, i, acc) ==
  IF i > Len(row) THEN acc
  ELSE LET D == {d \in 1..Len(DigitChars) : DigitChars[d] = row[i]}
       IN IF D = {} THEN -1
          ELSE int_at(row, i + 1, acc * 10 + (CHOOSE d \in D : TRUE) - 1)
int(row) == IF row = <<>> THEN -1 ELSE int_at(row, 1, 0)

\* XmlTag.add_attr: self.attrs[attrname] = attrvalue; novalue is a None value
add_attr(tag, attrname, attrvalue, novalue) ==
  LET a == [name |-> attrname, value |-> attrvalue, novalue |-> novalue]
      at == {i \in 1..Len(tag.attrs) : tag.attrs[i].name = attrname}
  IN [tag EXCEPT !.attrs =
        IF at = {} THEN Append(tag.attrs, a)
        ELSE [i \in 1..Len(tag.attrs) |-> IF i \in at THEN a ELSE tag.attrs[i]]]

\* XmlTag.add_element / XmlTag.add_tag
add_element(tag, item) == [tag EXCEPT !.elements = Append(tag.elements, item)]

\* XmlTag.add_text(text) of a str
add_text(tag, text) ==
  LET tags == tag.elements
      resolved == resolve_entities(text)
  IN IF Len(tags) > 0 /\ tags[Len(tags)].t = "text"
     THEN [tag EXCEPT !.elements[Len(tags)].content = @ \o resolved]
     ELSE add_element(tag, XmlText(resolved))

\* _add_preserving_text(parent_tag, text, preserve = True)
add_preserving_text(parent_tag, text) ==
  IF text = <<>> THEN parent_tag ELSE add_text(parent_tag, text)

\* the outcome of __parse_attrs: the tag, self.max_id, the exception raised
AttrsParsed(tag, maxid, exc) == [tag |-> tag, max_id |-> maxid, exc |-> exc]

Blank == {" ", "\t"}
Quotes == {"\"", "'"}

\* XmlParser.__parse_attrs (STRICT off)
RECURSIVE parse_attrs(_, _, _, _, _)
parse_attr_value(tag, row, attr_name, eq, idx2, maxid) ==
  Bind(scan_while(row, eq + 1, idx2, Blank), LAMBDA q :
    IF row[q] \notin Quotes THEN AttrsParsed(tag, maxid, "XmlParserException")
    ELSE Bind(scan_until(row, q + 1, idx2, {row[q]}), LAMBDA q2 :
      IF row[q2] # row[q] THEN AttrsParsed(tag, maxid, "XmlParserException")
      ELSE Bind(slice(row, q + 1, q2), LAMBDA attr_value :
        Bind(add_attr(tag, attr_name, resolve_entities(attr_value), FALSE), LAMBDA tag2 :
          Bind(IF attr_name = <<"i", "d">> /\ int(attr_value) > maxid
               THEN int(attr_value) ELSE maxid, LAMBDA maxid2 :
            parse_attrs(tag2, row, q2 + 1, idx2, maxid2))))))

parse_attrs(tag, row, idx_, idx2, maxid) ==
  IF idx_ >= idx2 THEN AttrsParsed(tag, maxid, "none")
  ELSE Bind(scan_while(row, idx_, idx2, Blank), LAMBDA n0 :
    Bind(scan_until(row, n0, idx2, Blank \cup {"=", "/", ">"}), LAMBDA n1 :
      Bind(slice(row, n0, n1), LAMBDA attr_name :
        IF attr_name = <<>> THEN AttrsParsed(tag, maxid, "none")
        ELSE IF \E i \in 1..Len(attr_name) : attr_name[i] \in Quotes
        THEN AttrsParsed(tag, maxid, "XmlParserException")
        ELSE Bind(scan_while(row, n1, idx2, Blank), LAMBDA eq :
          IF eq >= idx2 \/ row[eq] # "="
          THEN Bind(add_attr(tag, attr_name, <<>>, TRUE), LAMBDA tag2 :
                 parse_attrs(tag2, row, eq, idx2, maxid))
          ELSE parse_attr_value(tag, row, attr_name, eq, idx2, maxid)))))

\* the outcome of __parse_tags: the parent tag as filled, the position
\* returned, self.max_id, the exception raised
Parsed(tag, idx_, maxid, exc) == [tag |-> tag, idx |-> idx_, max_id |-> maxid, exc |-> exc]

\* XmlParser.__parse_tags (HTML on, STRICT off, preserve = True): one call is
\* the while loop from position idx0 on
RECURSIVE parse_tags(_, _, _, _)

\* the tag whose name starts at name0, met after the text `text`
parse_tag(parent_tag, row, text, endtag, name0, maxid) ==
  Bind(scan_until(row, name0, Len(row) + 1, {">", " ", "/"}), LAMBDA name1 :
    Bind(find(row, ">", name1), LAMBDA idx2 :
      IF idx2 = 0 THEN Parsed(parent_tag, name1, maxid, "XmlParserException")
      ELSE Bind(slice(row, name0, name1), LAMBDA tag_name :
        Bind(IF endtag THEN AttrsParsed(XmlTag(tag_name), maxid, "none")
             ELSE parse_attrs(XmlTag(tag_name), row, name1, idx2, maxid), LAMBDA a :
          IF a.exc # "none" THEN Parsed(parent_tag, name1, a.max_id, a.exc)
          ELSE IF endtag /\ row[idx2 - 1] = "/"
          THEN Parsed(parent_tag, name1, a.max_id, "XmlParserException")
          ELSE Bind(add_preserving_text(parent_tag, text), LAMBDA parent2 :
            IF endtag /\ tag_name = parent_tag.name
            THEN Parsed(parent2, idx2 + 1, a.max_id, "none")
            ELSE IF tag_name \in HTML_AUTO_END_TAGS \/ row[idx2 - 1] = "/" \/ endtag
            THEN Bind(add_element(parent2, a.tag), LAMBDA parent3 :
                   parse_tags(parent3, row, idx2 + 1, a.max_id))
            ELSE Bind(parse_tags(a.tag, row, idx2 + 1, a.max_id), LAMBDA child :
                   IF child.exc # "none"
                   THEN Parsed(parent2, child.idx, child.max_id, child.exc)
                   ELSE Bind(add_element(parent2, child.tag), LAMBDA parent3 :
                          parse_tags(parent3, row, child.idx, child.max_id))))))))

\* the `<` found at position lt, after the text that starts at idx0
parse_mark(parent_tag, row, idx0, lt, maxid) ==
  Bind(row[lt + 1] = "/", LAMBDA endtag :
    Bind(IF endtag THEN lt + 1 ELSE lt, LAMBDA at :
      IF at + 1 > Len(row) THEN Parsed(parent_tag, at, maxid, "IndexError")
      ELSE IF ~is_alpha(row[at + 1]) THEN parse_tags(parent_tag, row, at + 1, maxid)
      ELSE Bind(slice(row, idx0, lt), LAMBDA text :
             parse_tag(parent_tag, row, text, endtag, at + 1, maxid))))

parse_tags(parent_tag, row, idx0, maxid) ==
  IF idx0 > Len(row) THEN Parsed(parent_tag, idx0, maxid, "none")
  ELSE Bind(find(row, "<", idx0), LAMBDA lt :
    IF lt = 0 \/ lt = Len(row)
    THEN Parsed(add_preserving_text(parent_tag, slice(row, idx0, Len(row) + 1)),
                lt, maxid, "none")
    ELSE parse_mark(parent_tag, row, idx0, lt, maxid))

\* XmlParser.parse_text: the elements of the '#root' tag
parse_text(text, maxid) == parse_tags(XmlTag(<<"#", "r", "o", "o", "t">>), text, 1, maxid)

\* XmlTag.write / XmlText.write with PRETTY_OUTPUT off
RECURSIVE write(_)
RECURSIVE write_attrs(_, _)
write_attrs(attrs, i) ==
  IF i > Len(attrs) THEN <<>>
  ELSE <<" ">> \o attrs[i].name
       \o (IF attrs[i].novalue THEN <<>>
           ELSE <<"=", "\"">> \o escape_attr_value(attrs[i].value) \o <<"\"">>)
       \o write_attrs(attrs, i + 1)

RECURSIVE write_all(_, _)
write_all(blocks, i) ==
  IF i > Len(blocks) THEN <<>>
  ELSE Bind(write(blocks[i]), LAMBDA w : w \o write_all(blocks, i + 1))

write(el) ==
  IF el.t = "text" THEN escape_entities(el.content)
  ELSE Bind(<<"<">> \o el.name \o write_attrs(el.attrs, 1), LAMBDA head :
    IF Len(el.elements) = 0
    THEN head \o (IF el.name \in HTML_AUTO_END_TAGS THEN <<">">> ELSE <<"/", ">">>)
    ELSE IF Len(el.elements) = 1 /\ el.elements[1].t = "text"
    THEN head \o <<">">> \o write(el.elements[1]) \o <<"<", "/">> \o el.name \o <<">">>
    ELSE head \o <<">">> \o write_all(el.elements, 1) \o <<"<", "/">> \o el.name \o <<">">>)

\* XmlParser.get_xml(blocks) of a list
get_xml(blocks) == write_all(blocks, 1)

-----------------------------------------------------------------------------
(* The markup parsed and written back: documents without directives or
   placeholders, and the markup that denotes them *)

MaxChildren == 2

\* a comment of the markup; the tree of the parser has no such node
XmlComment(content) ==
  [t |-> "comment", name |-> <<>>, attrs |-> <<>>, elements |-> <<>>, content |-> content]

AttrOf(attrname, attrvalue) == [name |-> attrname, value |-> attrvalue, novalue |-> FALSE]
Elem(tagname, attrs, els) == [XmlTag(tagname) EXCEPT !.attrs = attrs, !.elements = els]

AttrValues ==
  {<<"v">>, <<>>, <<"1", "<", "2">>, <<"1", ">", "2">>, <<"x", "&", "y">>, <<"\"">>}
AttrLists ==
  {<<>>, <<AttrOf(<<"i", "d">>, <<"1", "2">>)>>,
   <<AttrOf(<<"k">>, <<"v">>), AttrOf(<<"j">>, <<"w">>)>>,
   <<AttrOf(<<"j">>, <<"w">>), AttrOf(<<"k">>, <<"v">>)>>}
  \cup {<<AttrOf(<<"k">>, v)>> : v \in AttrValues}
Texts == {<<"x">>, <<" ", "x", " ">>, <<"x", "&", "y">>, <<"1", "<", "2">>, <<"1", ">", "2">>}
Children ==
  {XmlText(c) : c \in Texts}
  \cup {Elem(<<"b">>, <<>>, <<XmlText(c)>>) : c \in Texts}
  \cup {Elem(<<"b">>, <<>>, <<>>), Elem(<<"b", "r">>, <<>>, <<>>),
        Elem(<<"b">>, <<AttrOf(<<"k">>, <<"v">>)>>, <<>>), XmlComment(<<"c">>)}
ChildLists ==
  {s \in UNION {[1..n -> Children] : n \in 0..MaxChildren} :
     \A i \in 1..(Len(s) - 1) : ~(s[i].t = "text" /\ s[i + 1].t = "text")}
Docs == {<<Elem(<<"a">>, attrs, els)>> : attrs \in AttrLists, els \in ChildLists}

\* the markup of a text: & < > as entities
TextMarkup(content) ==
  replace_each(content, << <<<<"&">>, <<"&", "a", "m", "p", ";">>>>,
                           <<<<"<">>, <<"&", "l", "t", ";">>>>,
                           <<<<">">>, <<"&", "g", "t", ";">>>> >>, 1)

\* the markup of an attribute value between double quotes: & " < as entities,
\* > as an entity or as itself (both are well formed)
ValueMarkup(value, gtEntity) ==
  replace_each(value, << <<<<"&">>, <<"&", "a", "m", "p", ";">>>>,
                         <<<<"\"">>, <<"&", "q", "u", "o", "t", ";">>>>,
                         <<<<"<">>, <<"&", "l", "t", ";">>>>,
                         <<<<">">>, IF gtEntity THEN <<"&", "g", "t", ";">> ELSE <<">">>>> >>, 1)

RECURSIVE AttrsMarkup(_, _, _)
AttrsMarkup(attrs, i, gtEntity) ==
  IF i > Len(attrs) THEN <<>>
  ELSE <<" ">> \o attrs[i].name \o <<"=", "\"">>
       \o ValueMarkup(attrs[i].value, gtEntity) \o <<"\"">>
       \o AttrsMarkup(attrs, i + 1, gtEntity)

\* the markup of a list of nodes: an empty element as <b/>, a void HTML
\* element as <br>
RECURSIVE Markup(_, _, _)
NodeMarkup(node, gtEntity) ==
  CASE node.t = "text" -> TextMarkup(node.content)
    [] node.t = "comment" -> <<"<", "!", "-", "-">> \o node.content \o <<"-", "-", ">">>
    [] OTHER ->
         Bind(<<"<">> \o node.name \o AttrsMarkup(node.attrs, 1, gtEntity), LAMBDA head :
           IF node.elements = <<>>
           THEN head \o (IF node.name \in HTML_AUTO_END_TAGS THEN <<">">> ELSE <<"/", ">">>)
           ELSE head \o <<">">> \o Markup(node.elements, 1, gtEntity)
                \o <<"<", "/">> \o node.name \o <<">">>)

Markup(nodes, i, gtEntity) ==
  IF i > Len(nodes) THEN <<>>
  ELSE Bind(NodeMarkup(nodes[i], gtEntity), LAMBDA m : m \o Markup(nodes, i + 1, gtEntity))

\* the text the parser is given, and the document it denotes
InitXml ==
  /\ \E d \in Docs, gtEntity \in BOOLEAN :
        /\ source = d
        /\ markup = Markup(d, 1, gtEntity)
  /\ tree = <<>> /\ written = <<>> /\ xmlPhase = "read"
  /\ engine = "xml"
  /\ runs = <<>> /\ collapsePasses = 0 /\ afterFirst = <<>>
  /\ NoDoc /\ NoTree /\ NoParts /\ NoSearch /\ NoStyles /\ NoNumbering /\ NoCells

\* XmlParser().parse_text(markup)
ParseText ==
  /\ xmlPhase = "read"
  /\ \E r \in {parse_text(markup, max_id)} :
        /\ error' = r.exc
        /\ max_id' = r.max_id
        /\ tree' = IF r.exc = "none" THEN r.tag.elements ELSE tree
        /\ xmlPhase' = IF r.exc = "none" THEN "parsed" ELSE "failed"
  /\ UNCHANGED <<engine, elements, idx, template, out, default_params, data,
                 access_ok_param_list, access_err_param_list,
                 markup, source, written, colVars, heapVars, partVars, statusVars,
                 styleVars, numVars, cellVars>>

\* XmlParser.get_xml(elements)
GetXml ==
  /\ xmlPhase = "parsed"
  /\ \E w \in {get_xml(tree)} : written' = w
  /\ xmlPhase' = "written"
  /\ UNCHANGED <<docVars, markup, source, tree, colVars, heapVars, partVars,
                 statusVars, styleVars, numVars, cellVars>>

NextXml == ParseText \/ GetXml

SpecXml == InitXml /\ [][NextXml]_vars

\* C6: for markup with no directives or placeholders, parse_text followed by
\* serialization without pretty print reproduces the input: the text written
\* is markup of the document the input denotes (the same elements in the same
\* order, the same attribute names and values in the same order, the same
\* text content), and no input is refused.
C6_RoundTripReproducesInput ==
  /\ xmlPhase # "failed"
  /\ xmlPhase = "written" =>
       written \in {Markup(source, 1, gtEntity) : gtEntity \in BOOLEAN}

\* markup that does round trip: nested elements, two attributes in order,
\* text with an entity
C6_RoundTripSeen ==
  /\ xmlPhase = "written" /\ written = markup
  /\ Len(source[1].attrs) = 2
  /\ \E i \in 1..Len(tree[1].elements) :
        /\ tree[1].elements[i].t = "tag"
        /\ tree[1].elements[i].elements = <<XmlText(<<"x", "&", "y">>)>>

\* C20: during block-span extraction every directive keyword of a visited
\* sibling is applied to the depth counters in document order, a second
\* `{% %}` of the same sibling included: a paragraph that holds both an if
\* and its endif leaves the depths unchanged, so the outer endif closes the
\* outer block and the paragraph after it stays in the document.
C20_BalancedSiblingKeepsDepth ==
  (template = WBalanced /\ Ended) =>
     /\ error = "none"
     /\ DocText # <<>> /\ DocText[Len(DocText)] = "Z"

\* the runs of the paragraph of a WPara template, and what the claim
\* expects of it: whether it holds a placeholder, and its text once every
\* {{c}} is replaced by the value of c (nothing for a missing value)
ParaRuns == template[1].runs
HadPlaceholder == \E i \in 1..Len(ParaRuns) : HasPlaceholder(ParaRuns[i])
ShownValue == IF CondValue.t \in {"missing", "none"} THEN <<>> ELSE StrOf(CondValue)
RECURSIVE Shown(_)
Shown(parts) ==
  IF parts = <<>> THEN <<>>
  ELSE (IF Head(parts).k = "lit" THEN <<Head(parts).s>> ELSE ShownValue) \o Shown(Tail(parts))
VisibleText == Flat([i \in 1..Len(ParaRuns) |-> Shown(ParaRuns[i])])

TemplateRows ==
  IF template[1].kind = "tbl" THEN template[1].rows ELSE template[1].tbls[1]
ResultRows ==
  IF elements[1].kind = "tbl" THEN elements[1].rows
  ELSE IF elements[1].tbls = <<>> THEN <<>> ELSE elements[1].tbls[1]
\* the runs of a row, cell by cell and paragraph by paragraph
RowRuns(r) == Flat([i \in 1..Len(r) |-> Flat([j \in 1..Len(r[i]) |-> r[i][j].runs])])
RowHadPlaceholder(r) == \E i \in 1..Len(RowRuns(r)) : HasPlaceholder(RowRuns(r)[i])
RowText(r) == Flat([i \in 1..Len(RowRuns(r)) |-> Atoms(RowRuns(r)[i])])
RowShown(r) == Flat([i \in 1..Len(RowRuns(r)) |-> Shown(RowRuns(r)[i])])
\* a row is to go when it held a placeholder and every placeholder of it was
\* replaced by the empty text
RowStays(r) == ~(RowHadPlaceholder(r) /\ ShownValue = <<>>)

\* C24: a table row with at least one placeholder whose substitutions all
\* gave the empty text is removed from the table; every other row, a row
\* without placeholder among them, stays with its substituted text.
C24_EmptyRowRemoved ==
  (template \in WTables /\ Ended) =>
    /\ error = "none"
    /\ [i \in 1..Len(ResultRows) |-> RowText(ResultRows[i])]
         = Bind(SelectSeq(TemplateRows, RowStays), LAMBDA kept :
             [i \in 1..Len(kept) |-> RowShown(kept[i])])

-----------------------------------------------------------------------------
(***************************************************************************)
(* The element tree with object identity (utils/xml.py).  heap[n] is the   *)
(* XmlElement object with id n; elements holds ids, parent holds an id or  *)
(* NoParent.  A removed object stays in the heap: Python keeps it alive as *)
(* long as the caller holds it.                                            *)
(***************************************************************************)
\* self.parent = None; XmlTag and XmlText do not run XmlElement.__init__, so
\* an object that was never added has no parent attribute at all
NoParent == 0

\* XmlTag(tagname, attrs): self.attrs = attrs.copy(), self.elements = []
HeapTag(tagname, attrs) ==
  [t |-> "tag", name |-> tagname, attrs |-> attrs, elements |-> <<>>,
   content |-> <<>>, parent |-> NoParent]

\* XmlText(content)
HeapText(content) ==
  [t |-> "text", name |-> "", attrs |-> <<>>, elements |-> <<>>,
   content |-> content, parent |-> NoParent]

Ids(h) == 1..Len(h)
Range(s) == {s[i] : i \in 1..Len(s)}
Without(s, i) == SubSeq(s, 1, i - 1) \o SubSeq(s, i + 1, Len(s))

\* XmlTag.add_element: self.elements.append(item); item.parent = self
heap_add_element(h, p, item) ==
  [h EXCEPT ![p].elements = Append(@, item), ![item].parent = p]

\* XmlTag.add_tag(tag: str): tag = XmlTag(tag, attrs); add_element; tag.parent = self
heap_add_tag(h, p, tagname) ==
  heap_add_element(Append(h, HeapTag(tagname, <<>>)), p, Len(h) + 1)

\* XmlTag.add_text(text: XmlText): return self.add_element(text)
heap_add_text_node(h, p, text) == heap_add_element(h, p, text)

\* XmlTag.add_text(text: str): appended to a trailing text node, else a new one
heap_add_text(h, p, text) ==
  LET tags == h[p].elements
      resolved == resolve_entities(text)
  IN IF Len(tags) > 0 /\ h[tags[Len(tags)]].t = "text"
     THEN [h EXCEPT ![tags[Len(tags)]].content = @ \o resolved]
     ELSE heap_add_element(Append(h, HeapText(resolved)), p, Len(h) + 1)

\* XmlTag.set_text: self.elements = []; return self.add_text(text)
heap_set_text(h, p, text) == heap_add_text([h EXCEPT ![p].elements = <<>>], p, text)

\* XmlTag.add_attr / set_attr on the object p
heap_add_attr(h, p, attrname, attrvalue) ==
  [h EXCEPT ![p] = add_attr(@, attrname, attrvalue, FALSE)]

\* XmlTag.remove_tag: del self.elements[idx] of the first child tag of that name
heap_remove_tag(h, p, tag_name) ==
  LET at == {i \in 1..Len(h[p].elements) :
               h[h[p].elements[i]].t = "tag" /\ h[h[p].elements[i]].name = tag_name}
  IN IF at = {} THEN h
     ELSE [h EXCEPT ![p].elements = Without(@, CHOOSE i \in at : \A j \in at : i <= j)]

\* XmlTag.remove: del self.elements[idx] of the first child that is elem0
heap_remove(h, p, elem0) ==
  LET at == {i \in 1..Len(h[p].elements) : h[p].elements[i] = elem0}
  IN IF at = {} THEN h
     ELSE [h EXCEPT ![p].elements = Without(@, CHOOSE i \in at : \A j \in at : i <= j)]

\* XmlTag.remove_tags: del self.elements[idx] of every child tag of that name
heap_remove_tags(h, p, tag_name) ==
  LET keep(e) == ~(h[e].t = "tag" /\ h[e].name = tag_name)
  IN [h EXCEPT ![p].elements = SelectSeq(@, keep)]

RECURSIVE heap_clone(_, _, _)
RECURSIVE clone_elements(_, _, _, _)
\* XmlText.clone / XmlTag.clone: a new object, xml.parent = self.parent, and
\* for deep clones xml.add_element(item.clone()) for each child.
\* The result is the new heap and the id of the copy.
heap_clone(h, n, deep) ==
  IF h[n].t = "text"
  THEN [h |-> Append(h, [HeapText(h[n].content) EXCEPT !.parent = h[n].parent]),
        id |-> Len(h) + 1]
  ELSE LET h1 == Append(h, [HeapTag(h[n].name, h[n].attrs) EXCEPT !.parent = h[n].parent])
       IN [h |-> IF deep THEN clone_elements(h1, n, Len(h) + 1, 1) ELSE h1,
           id |-> Len(h) + 1]
clone_elements(h, n, xml, i) ==
  IF i > Len(h[n].elements) THEN h
  ELSE \* the copy of a child is always deep: item.clone()
       LET r == Bind(<<h, h[n].elements[i]>>, LAMBDA a : heap_clone(a[1], a[2], TRUE))
       IN clone_elements(heap_add_element(r.h, xml, r.id), n, xml, i + 1)

\* the objects below n, n included
RECURSIVE Subtree(_, _)
Subtree(h, n) ==
  {n} \cup UNION {Subtree(h, h[n].elements[i]) : i \in 1..Len(h[n].elements)}

\* the objects no element holds as a child
Detached(h) == {n \in Ids(h) : \A p \in Ids(h) : n \notin Range(h[p].elements)}

\* --- the tree operations applied to a parsed <a/> -------------------------
MaxNodes == 4
MaxText == 2
TagNames == {"b", "c"}
TextArgs == {<<"x">>, <<>>}
TagIds == {p \in Ids(heap) : heap[p].t = "tag"}
Room(k) == Len(heap) + k <= MaxNodes

\* XmlParser().parse_text('<a/>'): the #root tag holding <a/>
InitTree ==
  /\ heap = heap_add_tag(<<HeapTag("#root", <<>>)>>, 1, "a")
  /\ forBlocks = <<>> /\ forCopies = <<>> /\ treeOp = "none"
  /\ engine = "xml"
  /\ markup = <<>> /\ source = <<>> /\ tree = <<>> /\ written = <<>>
  /\ xmlPhase = "idle"
  /\ runs = <<>> /\ collapsePasses = 0 /\ afterFirst = <<>>
  /\ NoDoc /\ NoParts /\ NoSearch /\ NoStyles /\ NoNumbering /\ NoCells

TreeFrame ==
  UNCHANGED <<docVars, xmlVars, colVars, forBlocks, forCopies, partVars, statusVars,
              styleVars, numVars, cellVars>>

\* p.add_text('x')
AddText ==
  /\ \E p \in TagIds, text \in TextArgs :
        /\ Room(1)
        /\ \A i \in 1..Len(heap[p].elements) :
              Len(heap[heap[p].elements[i]].content) + Len(text) <= MaxText
        /\ heap' = heap_add_text(heap, p, text)
  /\ treeOp' = "add_text" /\ TreeFrame

\* p.add_text(XmlText('x'))
AddTextNode ==
  /\ \E p \in TagIds, text \in TextArgs :
        /\ Room(1)
        /\ heap' = heap_add_text_node(Append(heap, HeapText(text)), p, Len(heap) + 1)
  /\ treeOp' = "add_text" /\ TreeFrame

\* p.add_element(item) for an object that is in no tree
AddElement ==
  /\ \E p \in TagIds, item \in Detached(heap) :
        /\ p \notin Subtree(heap, item)
        /\ heap' = heap_add_element(heap, p, item)
  /\ treeOp' = "add_element" /\ TreeFrame

\* p.add_tag('b')
AddTag ==
  /\ \E p \in TagIds, tagname \in TagNames :
        /\ Room(1)
        /\ heap' = heap_add_tag(heap, p, tagname)
  /\ treeOp' = "add_tag" /\ TreeFrame

\* p.remove(elem0)
Remove ==
  /\ \E p \in TagIds : \E elem0 \in Range(heap[p].elements) :
        heap' = heap_remove(heap, p, elem0)
  /\ treeOp' = "remove" /\ TreeFrame

\* p.remove_tag('b')
RemoveTag ==
  /\ \E p \in TagIds, tag_name \in TagNames : heap' = heap_remove_tag(heap, p, tag_name)
  /\ treeOp' = "remove_tag" /\ TreeFrame

\* p.remove_tags('b')
RemoveTags ==
  /\ \E p \in TagIds, tag_name \in TagNames : heap' = heap_remove_tags(heap, p, tag_name)
  /\ treeOp' = "remove_tags" /\ TreeFrame

\* n.clone(deep)
Clone ==
  /\ \E n \in Ids(heap) \ {1}, deep \in BOOLEAN :
        /\ Room(Cardinality(Subtree(heap, n)))
        /\ \E r \in {heap_clone(heap, n, deep)} : heap' = r.h
  /\ treeOp' = "clone" /\ TreeFrame

NextTree ==
  AddText \/ AddTextNode \/ AddElement \/ AddTag \/ Remove \/ RemoveTag \/ RemoveTags
    \/ Clone

SpecTree == InitTree /\ [][NextTree]_vars

\* C15: after any sequence of tree operations no element has two Text nodes
\* next to each other among its children: adjacent text is always merged.
C15_NoAdjacentText ==
  \A p \in Ids(heap) : \A i \in 1..(Len(heap[p].elements) - 1) :
     ~(heap[heap[p].elements[i]].t = "text" /\ heap[heap[p].elements[i + 1]].t = "text")

\* C16: after every structural mutation a node's parent is P exactly when
\* the node is one of P's children, so a removed node and the root of a fresh
\* clone, which are in no children list, reference no parent.
C16_ParentsConsistent ==
  \A n \in Ids(heap) :
     /\ \A p \in Ids(heap) : (heap[n].parent = p) <=> (n \in Range(heap[p].elements))
     /\ n \in Detached(heap) => heap[n].parent = NoParent

-----------------------------------------------------------------------------
(***************************************************************************)
(* The for branch of WordDocument.__process_paragraph on the element tree  *)
(* with object identity.  The text of a w:t is a sequence of atoms: a      *)
(* directive is <<"{%", keyword, "%}">>, a placeholder is <<"{{x}}">>.     *)
(***************************************************************************)
\* XmlTag.get_text: the content of the first text node
heap_get_text(h, tag) ==
  LET at == {i \in 1..Len(h[tag].elements) : h[h[tag].elements[i]].t = "text"}
  IN IF at = {} THEN <<>>
     ELSE h[h[tag].elements[CHOOSE i \in at : \A j \in at : i <= j]].content

RECURSIVE heap_get_directive(_, _)
RECURSIVE first_directive(_, _, _)
\* WordDocument.__get_directive(tag): the keyword, "none" for None
heap_get_directive(h, tag) ==
  IF h[tag].t # "tag" THEN "none"
  ELSE IF h[tag].name # "w:t" THEN first_directive(h, h[tag].elements, 1)
  ELSE LET text == heap_get_text(h, tag)
       IN IF Len(text) >= 3 /\ text[1] = "{%" THEN text[2] ELSE "none"
\* for tag2 in tag.elements: the first keyword that is not None
first_directive(h, els, i) ==
  IF i > Len(els) THEN "none"
  ELSE LET keyword == heap_get_directive(h, els[i])
       IN IF keyword # "none" THEN keyword ELSE first_directive(h, els, i + 1)

\* WordDocument.__process_directive_with_status on the element tree
heap_process_directive_with_status(h, tag, status) ==
  LET keyword == heap_get_directive(h, tag)
  IN IF keyword # "none" THEN process_directive_keyword(status, keyword)
     ELSE [status |-> status, found |-> FALSE]

\* a block list that keeps the object itself instead of a copy of it
block_share(h, tag) == [h |-> h, id |-> tag]

\* tag.clone(True) in __get_blocks_until_endfor, block.clone(True) in the loop
block_clone(h, tag) == heap_clone(h, tag, TRUE)

RECURSIVE heap_until_endfor(_, _, _, _, _)
\* the while loop of __get_blocks_until_endfor over parent.elements at idx
heap_until_endfor(h, parent, idx_, status, blocks) ==
  IF idx_ >= Len(h[parent].elements) THEN [h |-> h, blocks |-> blocks]
  ELSE LET tag == h[parent].elements[idx_ + 1]
           rest == [h EXCEPT ![parent].elements = Del(@, idx_)]
       IN IF h[tag].t # "tag" THEN heap_until_endfor(rest, parent, idx_, status, blocks)
          ELSE LET r == heap_process_directive_with_status(h, tag, status)
               IN IF r.found THEN [h |-> rest, blocks |-> blocks]
                  ELSE LET c == Bind(rest, LAMBDA x : block_clone(x, tag))
                       IN heap_until_endfor(c.h, parent, idx_, r.status,
                                            Append(blocks, c.id))

\* WordDocument.__get_blocks_until_endfor(elements, idx)
heap_get_blocks_until_endfor(h, parent, idx_) ==
  LET r == heap_process_directive_with_status(
             h, h[parent].elements[idx_ + 1], [ProcessStatus EXCEPT !.search = KEYWORD_FOR])
  IN heap_until_endfor([h EXCEPT ![parent].elements = Del(@, idx_)], parent, idx_,
                       r.status, <<>>)

RECURSIVE heap_resolve_text_value(_, _, _)
RECURSIVE resolve_children(_, _, _, _)
\* WordDocument.__resolve_text_value(row, block): text_node.content = text1
\* for the w:t whose text holds a placeholder; resolved is the text written
heap_resolve_text_value(h, block, resolved) ==
  IF h[block].t # "tag" \/ h[block].elements = <<>> THEN h
  ELSE IF h[block].name # "w:t" THEN resolve_children(h, h[block].elements, 1, resolved)
  ELSE LET text_node == h[block].elements[1]
       IN IF h[text_node].t = "text" /\ "{{x}}" \in Range(h[text_node].content)
          THEN [h EXCEPT ![text_node].content = resolved]
          ELSE h
resolve_children(h, els, i, resolved) ==
  IF i > Len(els) THEN h
  ELSE resolve_children(heap_resolve_text_value(h, els[i], resolved), els, i + 1, resolved)

RECURSIVE copy_blocks(_, _, _, _)
\* for block in for_blocks: for_blocks_copy.append(block.clone(True))
copy_blocks(h, blocks, i, acc) ==
  IF i > Len(blocks) THEN [h |-> h, copy |-> acc]
  ELSE LET c == Bind(h, LAMBDA x : block_clone(x, blocks[i]))
       IN copy_blocks(c.h, blocks, i + 1, Append(acc, c.id))

RECURSIVE resolve_blocks(_, _, _, _)
\* while idx2 < len(for_blocks_copy): __process_paragraph(for_blocks_copy, idx2)
\* for blocks that hold no directive
resolve_blocks(h, copy, i, resolved) ==
  IF i > Len(copy) THEN h
  ELSE resolve_blocks(heap_resolve_text_value(h, copy[i], resolved), copy, i + 1, resolved)

RECURSIVE heap_for_iterations(_, _, _, _, _)
\* for varvalue in for_list: the copies of every iteration, and the heap
heap_for_iterations(h, for_list, row, blocks, copies) ==
  IF row > Len(for_list) THEN [h |-> h, copies |-> copies]
  ELSE LET c == Bind(h, LAMBDA x : copy_blocks(x, blocks, 1, <<>>))
       IN heap_for_iterations(resolve_blocks(c.h, c.copy, 1, <<for_list[row]>>),
                              for_list, row + 1, blocks, Append(copies, c.copy))

\* out = out + for_blocks_copy, over all the iterations
RECURSIVE Concat(_)
Concat(ss) == IF ss = <<>> THEN <<>> ELSE Head(ss) \o Concat(Tail(ss))

\* --- the templates: a body with one loop over one or two blocks -----------
ForList == [k \in 1..MaxItems |-> ToString(k)]

\* <w:p [id="7"]><w:t>content</w:t></w:p> appended to parent
HeapPara(h, parent, withId, content) ==
  LET h1 == heap_add_tag(h, parent, "w:p")
      p == Len(h) + 1
      h2 == IF withId THEN heap_add_attr(h1, p, <<"i", "d">>, <<"7">>) ELSE h1
      h3 == heap_add_tag(h2, p, "w:t")
  IN heap_add_text(h3, p + 1, content)

RECURSIVE HeapParas(_, _, _, _)
HeapParas(h, parent, ids, i) ==
  IF i > Len(ids) THEN h
  ELSE HeapParas(HeapPara(h, parent, ids[i], <<"{{x}}">>), parent, ids, i + 1)

\* the w:body of the template: {% for x in xs %}, the blocks, {% endfor %}
\* and, with tail, one more paragraph
HeapBody(ids, tail) ==
  LET h0 == <<HeapTag("w:body", <<>>)>>
      h1 == HeapPara(h0, 1, FALSE, <<"{%", KEYWORD_FOR, "%}">>)
      h2 == HeapParas(h1, 1, ids, 1)
      h3 == HeapPara(h2, 1, FALSE, <<"{%", KEYWORD_ENDFOR, "%}">>)
  IN IF tail THEN HeapPara(h3, 1, FALSE, <<"Z">>) ELSE h3

BlockIds == {<<FALSE>>, <<TRUE>>, <<FALSE, FALSE>>, <<TRUE, FALSE>>, <<TRUE, TRUE>>}

InitFor ==
  /\ \E ids \in BlockIds, tail \in BOOLEAN : heap = HeapBody(ids, tail)
  /\ forBlocks = <<>> /\ forCopies = <<>> /\ treeOp = "none"
  /\ engine = "word"
  /\ markup = <<>> /\ source = <<>> /\ tree = <<>> /\ written = <<>>
  /\ xmlPhase = "idle"
  /\ runs = <<>> /\ collapsePasses = 0 /\ afterFirst = <<>>
  /\ NoDoc /\ NoParts /\ NoSearch /\ NoStyles /\ NoNumbering /\ NoCells

ForFrame == UNCHANGED <<docVars, xmlVars, colVars, partVars, statusVars,
                        styleVars, numVars, cellVars>>

\* the for branch of __process_paragraph(body.elements, 0) over the first
\* n values of the list
ExpandFor ==
  /\ treeOp = "none"
  /\ \E n \in 0..MaxItems :
       \E b \in {heap_get_blocks_until_endfor(heap, 1, 0)} :
         \E r \in {heap_for_iterations(b.h, SubSeq(ForList, 1, n), 1, b.blocks, <<>>)} :
            /\ heap' = [r.h EXCEPT ![1].elements = Concat(r.copies) \o @]
            /\ forBlocks' = b.blocks
            /\ forCopies' = r.copies
  /\ treeOp' = "for" /\ ForFrame

\* the objects of the template (0) or of the copies of iteration j
Owned(j) ==
  UNION {Subtree(heap, n) : n \in Range(IF j = 0 THEN forBlocks ELSE forCopies[j])}
Owners == 0..Len(forCopies)

\* text_node.content = ... on a text object of a clone or of the template
TouchText ==
  /\ treeOp = "for"
  /\ \E j \in Owners : \E n \in Owned(j) :
        /\ heap[n].t = "text" /\ heap[n].content # <<"w">>
        /\ heap' = [heap EXCEPT ![n].content = <<"w">>]
  /\ treeOp' = "touch" /\ ForFrame /\ UNCHANGED <<forBlocks, forCopies>>

\* tag.add_attr('id', '9') on a tag object of a clone or of the template
TouchAttr ==
  /\ treeOp = "for"
  /\ \E j \in Owners : \E n \in Owned(j) :
        /\ heap[n].t = "tag"
        /\ heap' = heap_add_attr(heap, n, <<"i", "d">>, <<"9">>)
        /\ heap' # heap
  /\ treeOp' = "touch" /\ ForFrame /\ UNCHANGED <<forBlocks, forCopies>>

NextFor == ExpandFor \/ TouchText \/ TouchAttr

SpecFor == InitFor /\ [][NextFor]_vars

\* the subtree below n as a value: names, attributes and text, no identity
RECURSIVE Deep(_, _)
Deep(h, n) ==
  [t |-> h[n].t, name |-> h[n].name, attrs |-> h[n].attrs, content |-> h[n].content,
   elements |-> [i \in 1..Len(h[n].elements) |-> Deep(h, h[n].elements[i])]]
DeepOf(h, roots) == [i \in 1..Len(roots) |-> Deep(h, roots[i])]
Roots(j) == IF j = 0 THEN forBlocks ELSE forCopies[j]

C17_NoSharedNode ==
  \A i, j \in Owners : i # j => Owned(i) \cap Owned(j) = {}
C17_TouchIsLocal ==
  (treeOp # "none" /\ forBlocks' = forBlocks /\ forCopies' = forCopies) =>
     \A j \in Owners :
        (\E n \in Owned(j) : heap'[n] # heap[n]) =>
           \A i \in Owners \ {j} : DeepOf(heap', Roots(i)) = DeepOf(heap, Roots(i))
\* C17: after a for-loop expansion over N items no node is shared between
\* two iteration clones or between a clone and the extracted body template:
\* changing the text or the attributes of a node of one clone leaves every
\* other clone and the template unchanged.
C17_ClonesShareNoNode == [][C17_TouchIsLocal]_vars /\ []C17_NoSharedNode

\* two iterations were expanded over two blocks, and the text of a node of
\* the first clone was changed afterwards
C17_Witness ==
  /\ treeOp = "touch" /\ Len(forCopies) = 2 /\ Len(forBlocks) = 2
  /\ \E n \in Owned(1) : heap[n].content = <<"w">>
  /\ \E n \in Owned(2) : heap[n].content = <<"2">>
  /\ \E n \in Owned(0) : heap[n].content = <<"{{x}}">>

-----------------------------------------------------------------------------
(***************************************************************************)
(* WordDocument.process_template: the header files, the footer files and   *)
(* the main document are parsed in this order, and WordDocument.max_id is  *)
(* taken from the parser of each.  collapse_paragraphs, process_paragraphs *)
(* and expand_content do not assign max_id.                                *)
(***************************************************************************)
MaxFiles == 2
MaxId == 3

\* the id attribute of the root of a file: 0 for no id attribute, -1 for
\* an id that is not an integer
FileIds == -1..MaxId
FileDoc(k) ==
  <<Elem(<<"a">>,
         CASE k = 0 -> <<>>
           [] k < 0 -> <<AttrOf(<<"i", "d">>, <<"x">>)>>
           [] OTHER -> <<AttrOf(<<"i", "d">>, <<ToString(k)>>)>>,
         <<>>)>>
FileText(k) == Markup(FileDoc(k), 1, FALSE)
Max(a, b) == IF a >= b THEN a ELSE b

\* WordDocument.__init__: self.max_id = 0; the call
\* __process_word_ext_files(tempdir, 'header', ...) with its xml = XmlParser()
InitParts ==
  /\ engine = "word"
  /\ part = [kind |-> "header", idx |-> 1]
  /\ parser_max_id = 0 /\ seen_id = 0
  /\ elements = <<>> /\ idx = 0 /\ template = <<>> /\ out = <<>>
  /\ default_params = EmptyMap /\ data = EmptyMap
  /\ access_ok_param_list = <<>> /\ access_err_param_list = <<>>
  /\ max_id = 0 /\ error = "none"
  /\ markup = <<>> /\ source = <<>> /\ tree = <<>> /\ written = <<>>
  /\ xmlPhase = "idle"
  /\ runs = <<>> /\ collapsePasses = 0 /\ afterFirst = <<>>
  /\ NoTree /\ NoSearch /\ NoStyles /\ NoNumbering /\ NoCells

PartsFrame ==
  UNCHANGED <<engine, elements, idx, template, out, default_params, data,
              access_ok_param_list, access_err_param_list, error,
              source, tree, written, xmlPhase, colVars, heapVars, statusVars,
              styleVars, numVars, cellVars>>

\* __process_word_ext_files: the file header<idx>.xml or footer<idx>.xml
\* exists: xml.parse_file(file0) and self.max_id = max(self.max_id, xml.max_id)
ParseExtFile ==
  /\ part.kind \in {"header", "footer"} /\ part.idx <= MaxFiles
  /\ \E k \in FileIds :
       \E r \in {parse_text(FileText(k), parser_max_id)} :
          /\ r.exc = "none"
          /\ markup' = FileText(k)
          /\ parser_max_id' = r.max_id
          /\ max_id' = Max(max_id, r.max_id)
          /\ seen_id' = Max(seen_id, k)
  /\ part' = [part EXCEPT !.idx = @ + 1]
  /\ PartsFrame

\* __process_word_ext_files: the file does not exist, the loop ends; the
\* next call, or __process_word_file, starts with a new XmlParser
EndExtFiles ==
  /\ part.kind \in {"header", "footer"}
  /\ part' = [kind |-> IF part.kind = "header" THEN "footer" ELSE "document", idx |-> 1]
  /\ parser_max_id' = 0
  /\ UNCHANGED <<max_id, seen_id, markup>>
  /\ PartsFrame

\* __process_word_file: xml.parse_file(word_file) and self.max_id = xml.max_id
ParseDocument ==
  /\ part.kind = "document"
  /\ \E k \in FileIds :
       \E r \in {parse_text(FileText(k), parser_max_id)} :
          /\ r.exc = "none"
          /\ markup' = FileText(k)
          /\ parser_max_id' = r.max_id
          /\ max_id' = r.max_id
          /\ seen_id' = Max(seen_id, k)
  /\ part' = [kind |-> "done", idx |-> 0]
  /\ PartsFrame

NextParts == ParseExtFile \/ EndExtFiles \/ ParseDocument

SpecParts == InitParts /\ [][NextParts]_vars

C18_NeverDecreases == max_id' >= max_id
C18_CoversSeenIds == max_id >= seen_id
\* C18: within one document-processing pass max_id never decreases: after
\* each part (headers, footers, main document) is parsed it is at least the
\* largest integer id attribute seen in any part so far.
C18_MaxIdMonotone == [][C18_NeverDecreases]_vars /\ []C18_CoversSeenIds

-----------------------------------------------------------------------------
(***************************************************************************)
(* The search for the end of a block: __get_blocks_until_endif and         *)
(* __get_blocks_until_endfor hand the keyword of each sibling they visit   *)
(* to ProcessStatus.process_directive_keyword and stop when it returns     *)
(* True.                                                                   *)
(***************************************************************************)
MaxKeywords == 5
Keywords == {KEYWORD_IF, KEYWORD_ELSE, KEYWORD_ENDIF, KEYWORD_FOR, KEYWORD_ENDFOR}

\* status = ProcessStatus() and the opening {% if %}, or status.search =
\* KEYWORD_FOR and the opening {% for %}
InitSearch ==
  /\ \E opening \in {KEYWORD_IF, KEYWORD_FOR} :
        searchStatus =
          process_directive_keyword(
            IF opening = KEYWORD_FOR THEN [ProcessStatus EXCEPT !.search = KEYWORD_FOR]
            ELSE ProcessStatus, opening).status
  /\ keywords = <<>> /\ signal = FALSE
  /\ engine = "word"
  /\ markup = <<>> /\ source = <<>> /\ tree = <<>> /\ written = <<>>
  /\ xmlPhase = "idle"
  /\ runs = <<>> /\ collapsePasses = 0 /\ afterFirst = <<>>
  /\ NoDoc /\ NoTree /\ NoParts /\ NoStyles /\ NoNumbering /\ NoCells

\* the next sibling holds a directive: status.process_directive_keyword(keyword)
VisitKeyword ==
  /\ ~signal /\ Len(keywords) < MaxKeywords
  /\ \E keyword \in Keywords :
       \E r \in {process_directive_keyword(searchStatus, keyword)} :
          /\ searchStatus' = r.status
          /\ signal' = r.found
          /\ keywords' = Append(keywords, keyword)
  /\ UNCHANGED <<docVars, xmlVars, colVars, heapVars, partVars, styleVars, numVars, cellVars>>

NextSearch == VisitKeyword

SpecSearch == InitSearch /\ [][NextSearch]_vars

\* how often the keyword occurs among the keywords visited
Visited(kw) == Cardinality({i \in 1..Len(keywords) : keywords[i] = kw})
\* the depth of the block searched for: the opening directive and the
\* keywords of its own family only
IfDepth == 1 + Visited(KEYWORD_IF) - Visited(KEYWORD_ENDIF)
ForDepth == 1 + Visited(KEYWORD_FOR) - Visited(KEYWORD_ENDFOR)
Last(s) == s[Len(s)]

\* C19: while the end of an if block is searched, process_directive_keyword
\* signals block-found exactly on the endif that returns the if depth to 0,
\* whatever for / endfor keywords lie in between; while the end of a for
\* block is searched it signals exactly on the endfor that returns the for
\* depth to 0, whatever if / else / endif keywords lie in between.
C19_SignalOnMatchingEnd ==
  /\ searchStatus.search = KEYWORD_IF =>
       (signal <=> (keywords # <<>> /\ Last(keywords) = KEYWORD_ENDIF /\ IfDepth = 0))
  /\ searchStatus.search = KEYWORD_FOR =>
       (signal <=> (keywords # <<>> /\ Last(keywords) = KEYWORD_ENDFOR /\ ForDepth = 0))
  /\ searchStatus.search \in {KEYWORD_IF, KEYWORD_FOR}

\* an if block whose body interleaves a for with a nested if, the endfor
\* coming before the nested endif: the signal comes on the fifth keyword
C19_Witness ==
  /\ signal /\ searchStatus.search = KEYWORD_IF
  /\ keywords = <<KEYWORD_FOR, KEYWORD_IF, KEYWORD_ENDFOR, KEYWORD_ENDIF, KEYWORD_ENDIF>>

-----------------------------------------------------------------------------
(***************************************************************************)
(* The parser on markup that is not well formed: closing tags that close   *)
(* nothing and `<` marks that start no tag.  The input is <a>, up to       *)
(* MaxPieces pieces, </a>; source holds the pieces.                        *)
(***************************************************************************)
MaxPieces == 3

TextPiece == <<"x">>
ElementPiece == <<"<", "c", "/", ">">>
\* a closing tag whose name is not the name of the open element
StrayEndPiece == <<"<", "/", "b", ">">>
\* `<` and `</` with no letter behind
BarePieces == {<<"<", " ">>, <<"<", "1">>, <<"<", "/", " ">>}
Pieces == {TextPiece, ElementPiece, StrayEndPiece} \cup BarePieces

RECURSIVE PieceLists(_)
PieceLists(n) ==
  IF n = 0 THEN {<<>>}
  ELSE PieceLists(n - 1) \cup
       {Append(l, p) : l \in {x \in PieceLists(n - 1) : Len(x) = n - 1}, p \in Pieces}

InitLenient ==
  /\ \E ps \in PieceLists(MaxPieces) :
        /\ source = ps
        /\ markup = <<"<", "a", ">">> \o Flat(ps) \o <<"<", "/", "a", ">">>
  /\ tree = <<>> /\ written = <<>> /\ xmlPhase = "read"
  /\ engine = "xml"
  /\ runs = <<>> /\ collapsePasses = 0 /\ afterFirst = <<>>
  /\ NoDoc /\ NoTree /\ NoParts /\ NoSearch /\ NoStyles /\ NoNumbering /\ NoCells

SpecLenient == InitLenient /\ [][NextXml]_vars

\* the names of the elements of a tree and its text, in document order
RECURSIVE TagNamesIn(_)
TagNamesIn(els) ==
  UNION {IF els[i].t = "tag" THEN {els[i].name} \cup TagNamesIn(els[i].elements) ELSE {}
           : i \in 1..Len(els)}
RECURSIVE TextIn(_)
TextIn(els) ==
  Flat([i \in 1..Len(els) |->
          IF els[i].t = "text" THEN els[i].content ELSE TextIn(els[i].elements)])

HasPiece(ps) == \E i \in 1..Len(source) : source[i] \in ps
\* the pieces that stand for text: the text pieces and the bare `<` marks
LiteralText ==
  Flat(SelectSeq(source, LAMBDA p : p = TextPiece \/ p \in BarePieces))

\* C21: in lenient / HTML mode a closing tag whose name differs from the
\* open element is silently ignored: no error is raised and no node is
\* added to the tree.
C21_StrayEndTagIgnored ==
  (HasPiece({StrayEndPiece}) /\ ~HasPiece(BarePieces) /\ xmlPhase \in {"parsed", "failed"}) =>
     /\ xmlPhase = "parsed"
     /\ <<"b">> \notin TagNamesIn(tree)

\* C22: a `<` or `</` that no letter follows is literal text: the `<` and
\* the text before it since the last tag stay in the parent's text content,
\* nothing is dropped and no element is created.
C22_BareLessThanIsText ==
  (HasPiece(BarePieces) /\ ~HasPiece({StrayEndPiece}) /\ xmlPhase \in {"parsed", "failed"}) =>
     /\ xmlPhase = "parsed"
     /\ TextIn(tree) = LiteralText
     /\ TagNamesIn(tree) \subseteq {<<"a">>, <<"c">>}

-----------------------------------------------------------------------------
(***************************************************************************)
(* Entities: the text a writer escapes (XmlText.write, the attribute       *)
(* values of XmlTag.write) and a reader resolves (add_text, __parse_attrs).*)
(* source is the string, markup its escaped form, tree the string          *)
(* resolved from the markup.                                               *)
(***************************************************************************)
MaxTokens == 3

\* the strings are made of these pieces, so that the names of entities occur
EntityTokens ==
  {<<"&">>, <<"<">>, <<">">>, <<"\"">>, <<"x">>, <<"a", "m", "p", ";">>, <<"l", "t", ";">>,
   <<"q", "u", "o", "t", ";">>, <<"#", "x", "D", ";">>}

RECURSIVE TokenStrings(_)
TokenStrings(n) ==
  IF n = 0 THEN {<<>>}
  ELSE LET shorter == TokenStrings(n - 1)
       IN shorter \cup {s \o tk : s \in shorter, tk \in EntityTokens}

InitEntities ==
  /\ source \in TokenStrings(MaxTokens)
  /\ markup = <<>> /\ tree = <<>> /\ written = <<>> /\ xmlPhase = "idle"
  /\ engine = "xml"
  /\ runs = <<>> /\ collapsePasses = 0 /\ afterFirst = <<>>
  /\ NoDoc /\ NoTree /\ NoParts /\ NoSearch /\ NoStyles /\ NoNumbering /\ NoCells

EntitiesFrame ==
  UNCHANGED <<docVars, source, written, colVars, heapVars, partVars, statusVars,
              styleVars, numVars, cellVars>>

\* XmlParser.resolve_entities(XmlParser.escape_entities(source))
EscapeEntities ==
  /\ xmlPhase = "idle"
  /\ \E e \in {escape_entities(source)} :
        /\ markup' = e
        /\ tree' = resolve_entities(e)
  /\ xmlPhase' = "text" /\ EntitiesFrame

\* XmlParser.resolve_entities(XmlParser.escape_attr_value(source))
EscapeAttrValue ==
  /\ xmlPhase = "idle"
  /\ \E e \in {escape_attr_value(source)} :
        /\ markup' = e
        /\ tree' = resolve_entities(e)
  /\ xmlPhase' = "attr" /\ EntitiesFrame

\* XmlParser.resolve_entities(source)
ResolveEntities ==
  /\ xmlPhase = "idle"
  /\ markup' = source
  /\ tree' = resolve_entities(source)
  /\ xmlPhase' = "resolved" /\ EntitiesFrame

NextEntities == EscapeEntities \/ EscapeAttrValue \/ ResolveEntities

SpecEntities == InitEntities /\ [][NextEntities]_vars

AmpLt == <<"&", "a", "m", "p", ";", "l", "t", ";">>

\* C23: entity handling round-trips: resolve_entities(escape_entities(s))
\* = s and resolve_entities(escape_attr_value(s)) = s for every string s,
\* and `&amp;lt;` resolves to the text `&lt;`, not to `<`.
C23_EntitiesRoundTrip ==
  /\ xmlPhase \in {"text", "attr"} => tree = source
  /\ (xmlPhase = "resolved" /\ source = AmpLt) => tree = <<"&", "l", "t", ";">>

\* the string `&lt;` was escaped to `&amp;lt;` and resolved back
C23_Witness ==
  /\ xmlPhase = "text" /\ source = <<"&", "l", "t", ";">>
  /\ markup = AmpLt /\ tree = source


-----------------------------------------------------------------------------
(***************************************************************************)
(* docx/styles.py: the style table.  A style name and a directive value    *)
(* are sequences of characters; a w:style of styles.xml is the candidate   *)
(* name its w:styleId starts with and the number behind it (0: none).      *)
(***************************************************************************)
CFG_LIST_STYLES == <<"heading", "list_bullet", "list_number">>
CFG_SIMPLE_STYLES == <<"quote", "paragraph">>

\* DEFAULT_STYLES[style_name].split(','), each name trimmed and in lower case
DEFAULT_STYLES ==
  [heading |-> <<"ttulo">>, list_bullet |-> <<"listaconvietas", "listaconvieta">>,
   list_number |-> <<"listaconnmeros", "listaconnmero">>,
   quote |-> <<"cita">>, paragraph |-> <<"normal">>]

StyleTag(stylename, num) == [stylename |-> stylename, num |-> num]
\* w:styleId of the tag
StyleId(style_tag) ==
  IF style_tag.num = 0 THEN <<style_tag.stylename>>
  ELSE <<style_tag.stylename, ToString(style_tag.num)>>

\* None in a listbox
PyNone == <<"None">>

\* Styles.__set_style_id(stylename, style_tags, listbox)
RECURSIVE set_style_id(_, _, _, _)
set_style_id(stylename, style_tags, i, listbox) ==
  IF i > Len(style_tags) THEN listbox
  ELSE LET style_tag == style_tags[i]
           num == IF style_tag.num = 0 THEN 1 ELSE style_tag.num
       IN IF style_tag.stylename # stylename THEN set_style_id(stylename, style_tags, i + 1, listbox)
          ELSE IF num < 1 \/ num > 6 \/ (num - 1) >= Len(listbox) \/ listbox[num] # PyNone
          THEN set_style_id(stylename, style_tags, i + 1, listbox)
          ELSE set_style_id(stylename, style_tags, i + 1, [listbox EXCEPT ![num] = StyleId(style_tag)])

RECURSIVE set_style_ids(_, _, _, _)
\* for stylename in stylename_list: __set_style_id(stylename, style_tags, listbox)
set_style_ids(stylename_list, k, style_tags, listbox) ==
  IF k > Len(stylename_list) THEN listbox
  ELSE set_style_ids(stylename_list, k + 1, style_tags,
                     set_style_id(stylename_list[k], style_tags, 1, listbox))

\* Styles.find_positional_style(style_tags, stylenames, style_map, style_name)
find_positional_style(style_tags, stylenames, map, style_name) ==
  LET listbox == IF style_name \in DOMAIN map THEN map[style_name]
                 ELSE <<<<>>, <<>>, <<>>, <<>>, <<>>, <<>>, <<>>>>
  IN Put(map, style_name, set_style_ids(stylenames, 1, style_tags, listbox))

\* Styles.find_style(style_tags, stylenames, style_map, style_name)
find_style(style_tags, stylenames, map, style_name) ==
  LET hits == {<<k, i>> \in (1..Len(stylenames)) \X (1..Len(style_tags)) :
                 style_tags[i].num = 0 /\ style_tags[i].stylename = stylenames[k]}
  IN IF hits = {} THEN map
     ELSE LET first == CHOOSE h \in hits : \A g \in hits :
                          h[1] < g[1] \/ (h[1] = g[1] /\ h[2] <= g[2])
          IN Put(map, style_name, StyleId(style_tags[first[2]]))

RECURSIVE find_styles_in(_, _, _, _, _)
\* a loop of find_styles over `names`, from the k-th name on
find_styles_in(positional, names, k, style_tags, map) ==
  IF k > Len(names) THEN map
  ELSE find_styles_in(positional, names, k + 1, style_tags,
         IF positional
         THEN find_positional_style(style_tags, DEFAULT_STYLES[names[k]], map, names[k])
         ELSE find_style(style_tags, DEFAULT_STYLES[names[k]], map, names[k]))

\* Styles.find_styles()
find_styles(style_tags, map) ==
  find_styles_in(FALSE, CFG_SIMPLE_STYLES, 1, style_tags,
                 find_styles_in(TRUE, CFG_LIST_STYLES, 1, style_tags, map))

\* the characters Styles.__only_ascii drops, of those in use here
NotAscii == {" ", "~", "\"", "="}
\* Styles.__only_ascii(value)
only_ascii(value) == SelectSeq(value, LAMBDA ch : ch \notin NotAscii)

RECURSIVE py_split(_, _, _, _)
\* string.split(sep): the items from position i on, `item` being read
py_split(string, sep, i, item) ==
  IF i > Len(string) THEN <<item>>
  ELSE IF string[i] = sep THEN <<item>> \o py_split(string, sep, i + 1, <<>>)
  ELSE py_split(string, sep, i + 1, Append(item, string[i]))

\* text_util.split_no_empty(string, sep); the strip of the items has nothing
\* to do after __only_ascii
split_no_empty(string, sep) ==
  SelectSeq(py_split(string, sep, 1, <<>>), LAMBDA item : item # <<>>)

RECURSIVE style_list_autonum(_, _)
\* the while loop of Styles.__get_style_list_autonum; curlist[idx - 1] of an
\* empty list raises
style_list_autonum(curlist, i) ==
  IF i >= 6 THEN [value |-> curlist, exc |-> "none"]
  ELSE IF Len(curlist) = 0 THEN [value |-> curlist, exc |-> "IndexError"]
  ELSE LET value == curlist[i]
           cut == IF value[Len(value)] = ToString(i)
                  THEN SubSeq(value, 1, Len(value) - 1) ELSE value
       IN style_list_autonum(Append(curlist, Append(cut, ToString(i + 1))), i + 1)

\* Styles.__get_style_list_autonum(stylevalue)
get_style_list_autonum(stylevalue) ==
  Bind(split_no_empty(stylevalue, ","), LAMBDA curlist :
    style_list_autonum(curlist, Len(curlist)))

StylePrefix == <<"s", "t", "y", "l", "e", "_">>
\* name[6:] when name.startswith('style_')
style_name_of(name) ==
  IF Len(name) >= 6 /\ SubSeq(name, 1, 6) = StylePrefix
  THEN SubSeq(name, 7, Len(name)) ELSE name

RECURSIVE Joined(_)
\* the characters of a name as one string
Joined(chars) == IF chars = <<>> THEN "" ELSE Head(chars) \o Joined(Tail(chars))

\* Styles.setStyle(name, value): the style map and the exception raised
setStyle(map, name, value) ==
  LET style_name == Joined(style_name_of(name))
      ascii == only_ascii(value)
  IN IF \E k \in 1..Len(CFG_LIST_STYLES) : CFG_LIST_STYLES[k] = style_name
     THEN Bind(get_style_list_autonum(ascii), LAMBDA r :
            IF r.exc # "none" THEN [map |-> map, exc |-> r.exc]
            ELSE [map |-> Put(map, style_name, r.value), exc |-> "none"])
     ELSE [map |-> Put(map, style_name, ascii), exc |-> "none"]

\* the w:style elements of the styles.xml read
StyleTagLists ==
  {<<>>, <<StyleTag("ttulo", 1), StyleTag("ttulo", 2)>>,
   <<StyleTag("cita", 0), StyleTag("listaconvietas", 0), StyleTag("ttulo", 7)>>}

\* names and values of {% style name=value %} directives
StyleNames == {<<"h", "e", "a", "d", "i", "n", "g">>, StylePrefix \o <<"h", "e", "a", "d", "i", "n", "g">>,
               <<"l", "i", "s", "t", "_", "b", "u", "l", "l", "e", "t">>,
               <<"l", "i", "s", "t", "_", "n", "u", "m", "b", "e", "r">>,
               <<"q", "u", "o", "t", "e">>}
StyleValues ==
  {<<"H">>, <<"H", "1">>, <<"A", ",", " ", "B">>, <<"A", ",", "B", ",", "C", ",", "D", ",", "E", ",", "F", ",", "G">>,
   <<>>, <<"~">>}

\* Styles.__init__: style_map = {}
InitStyles ==
  /\ engine = "styles" /\ style_map = EmptyMap /\ error = "none"
  /\ elements = <<>> /\ idx = 0 /\ template = <<>> /\ out = <<>>
  /\ default_params = EmptyMap /\ data = EmptyMap
  /\ access_ok_param_list = <<>> /\ access_err_param_list = <<>> /\ max_id = 0
  /\ markup = <<>> /\ source = <<>> /\ tree = <<>> /\ written = <<>>
  /\ xmlPhase = "idle"
  /\ runs = <<>> /\ collapsePasses = 0 /\ afterFirst = <<>>
  /\ NoTree /\ NoParts /\ NoSearch /\ NoNumbering /\ NoCells

StylesFrame ==
  UNCHANGED <<engine, elements, idx, template, out, default_params, data,
              access_ok_param_list, access_err_param_list, max_id, xmlVars, colVars,
              heapVars, partVars, statusVars, numVars, cellVars>>

\* WordDocument.process_template: self.styles.find_styles()
FindStyles ==
  /\ engine = "styles" /\ style_map = EmptyMap
  /\ \E style_tags \in StyleTagLists : style_map' = find_styles(style_tags, style_map)
  /\ UNCHANGED error /\ StylesFrame

\* WordDocument.__process_style_directive(param) of a {% style name=value %}
ProcessStyleDirective ==
  /\ engine = "styles" /\ style_map # EmptyMap /\ error = "none"
  /\ \E name \in StyleNames, value \in StyleValues :
       \E r \in {setStyle(style_map, name, value)} :
          /\ style_map' = r.map
          /\ error' = r.exc
  /\ StylesFrame

NextStyles == FindStyles \/ ProcessStyleDirective

SpecStyles == InitStyles /\ [][NextStyles]_vars

\* C27: every positional style family (heading, list_bullet, list_number)
\* of the style table is a list of exactly 6 entries, as seeded and after
\* any `style` directives, and no `style` directive fails.
C27_PositionalFamiliesHoldSix ==
  style_map # EmptyMap =>
    /\ error = "none"
    /\ \A k \in 1..Len(CFG_LIST_STYLES) : Len(style_map[CFG_LIST_STYLES[k]]) = 6


-----------------------------------------------------------------------------
(***************************************************************************)
(* base/document.py: Document.resolve_text, which the Excel engine applies *)
(* to the name of a sheet.  The text is a sequence of parts as in a w:t;   *)
(* the part `{{` is an opening that no `}}` follows.                       *)
(***************************************************************************)
MaxParts == 3

OpenP == Lit("{{")
IsOpen(p) == p.k = "lit" /\ p.s = "{{"

\* value.find('{{', start): the first placeholder or opening from `start`
\* on, 0 when there is none
find_open(value, start) ==
  LET S == {i \in start..Len(value) : value[i].k = "ph" \/ IsOpen(value[i])}
  IN IF S = {} THEN 0 ELSE CHOOSE i \in S : \A j \in S : i <= j

RECURSIVE resolve_text_loop(_, _, _, _, _, _)
\* the while loop of Document.resolve_text with its idx0, idx1 and rtext
resolve_text_loop(ctx, var_row, value, idx0, idx1, rtext) ==
  IF idx1 = 0 \/ ctx.exc # "none" THEN [ctx |-> ctx, text |-> rtext]
  ELSE IF IsOpen(value[idx1]) THEN [ctx |-> ctx, text |-> rtext]
  ELSE Bind(resolve_value(ctx, var_row, value[idx1].e), LAMBDA v :
         Bind(rtext \o Atoms(SubSeq(value, idx0, idx1 - 1))
                    \o (IF v.val = VNone THEN <<>> ELSE StrOf(v.val)), LAMBDA t :
           resolve_text_loop(v.ctx, var_row, value, idx1 + 1,
                             find_open(value, idx1 + 1), t)))

\* Document.resolve_text(var_row, value)
resolve_text(ctx, var_row, value) ==
  IF find_open(value, 1) = 0 THEN [ctx |-> ctx, text |-> Atoms(value)]
  ELSE resolve_text_loop(ctx, var_row, value, 1, find_open(value, 1), <<>>)

RECURSIVE PartLists(_)
PartLists(n) ==
  IF n = 0 THEN {<<>>}
  ELSE PartLists(n - 1) \cup
       {Append(l, p) : l \in {x \in PartLists(n - 1) : Len(x) = n - 1},
                       p \in {Lit("a"), Lit("b"), Ph(cond), OpenP}}
\* the texts: no `}}` follows an opening
SheetNames ==
  {v \in PartLists(MaxParts) :
     \A i \in 1..Len(v) : IsOpen(v[i]) => \A j \in i..Len(v) : v[j].k # "ph"}

\* ExcelDocument: the name attribute of a sheet of the workbook
InitText ==
  /\ engine = "xlsx" /\ template \in SheetNames /\ data \in TableData
  /\ elements = <<>> /\ idx = 0 /\ out = <<>>
  /\ default_params = EmptyMap
  /\ access_ok_param_list = <<>> /\ access_err_param_list = <<>>
  /\ max_id = 0 /\ error = "none"
  /\ Idle

\* ExcelDocument.process_template: name0 = self.resolve_text(idx, name)
ResolveText ==
  /\ engine = "xlsx" /\ idx = 0
  /\ \E r \in {resolve_text(TheCtx, NoRow, template)} :
        /\ out' = r.text
        /\ Leave(r.ctx)
  /\ idx' = 1
  /\ UNCHANGED <<engine, template, elements, xmlVars, colVars, heapVars, partVars,
                 statusVars, styleVars, numVars, cellVars>>

NextText == ResolveText

SpecText == InitText /\ [][NextText]_vars

\* C28: Document.resolve_text(row, value) returns value with every complete
\* `{{expr}}` replaced by its resolved value and every other character kept
\* in order, the text after the last placeholder and the tail after an
\* unterminated `{{` included.
C28_ResolveTextKeepsOtherText ==
  (engine = "xlsx" /\ idx = 1) =>
    /\ error = "none"
    /\ out = Shown(template)


-----------------------------------------------------------------------------
(***************************************************************************)
(* docx/numbering.py: the w:num elements of numbering.xml, each by its     *)
(* w:numId, and the counter the next numId is taken from.                  *)
(***************************************************************************)
\* the largest w:numId of the file read, the most calls of add_numbering_start
MaxNumId == 3
MaxCalls == 3

\* the for loop of Numbering.__init__ over the w:num tags, from the i-th on
RECURSIVE first_new_num_id(_, _, _)
first_new_num_id(num_tags, i, new) ==
  IF i > Len(num_tags) THEN new
  ELSE first_new_num_id(num_tags, i + 1,
                        IF num_tags[i] > new THEN num_tags[i] + 1 ELSE new)

\* the w:numId lists of the files: every w:num has a numId of its own
NumIdLists ==
  {l \in UNION {[1..n -> 1..MaxNumId] : n \in 0..MaxNumId} :
     \A i, j \in 1..Len(l) : i # j => l[i] # l[j]}

\* Numbering.__init__(pathfile)
InitNumbering ==
  /\ engine = "numbering"
  /\ num_ids \in NumIdLists
  /\ new_num_id = first_new_num_id(num_ids, 1, 1)
  /\ returned_ids = <<>>
  /\ elements = <<>> /\ idx = 0 /\ template = <<>> /\ out = <<>>
  /\ default_params = EmptyMap /\ data = EmptyMap
  /\ access_ok_param_list = <<>> /\ access_err_param_list = <<>>
  /\ max_id = 0 /\ error = "none"
  /\ markup = <<>> /\ source = <<>> /\ tree = <<>> /\ written = <<>>
  /\ xmlPhase = "idle"
  /\ runs = <<>> /\ collapsePasses = 0 /\ afterFirst = <<>>
  /\ NoTree /\ NoParts /\ NoSearch /\ NoStyles /\ NoCells

\* Numbering.add_numbering_start(stylename): find_abstract_id_by_style finds
\* the style or not; 0 stands for the None returned
AddNumberingStart ==
  /\ engine = "numbering" /\ Len(returned_ids) < MaxCalls
  /\ \E found \in BOOLEAN :
       IF found
       THEN /\ num_ids' = Append(num_ids, new_num_id)
            /\ new_num_id' = new_num_id + 1
            /\ returned_ids' = Append(returned_ids, new_num_id)
       ELSE /\ returned_ids' = Append(returned_ids, 0)
            /\ UNCHANGED <<num_ids, new_num_id>>
  /\ UNCHANGED <<docVars, xmlVars, colVars, heapVars, partVars, statusVars, styleVars,
                 cellVars>>

NextNumbering == AddNumberingStart

SpecNumbering == InitNumbering /\ [][NextNumbering]_vars

\* C29: a numId add_numbering_start returns differs from every w:numId of
\* the numbering part read and from every numId returned before, so the
\* w:num elements have pairwise distinct numIds after any calls.
C29_NumIdsDistinct ==
  engine = "numbering" =>
    \A i, j \in 1..Len(num_ids) : i # j => num_ids[i] # num_ids[j]


-----------------------------------------------------------------------------
(***************************************************************************)
(* xlsx/document.py: the conversions between a column number and a row    *)
(* number and a cell reference, a sequence of characters.                  *)
(***************************************************************************)
\* the largest column number and row number converted
MaxCell == 704
MaxRow == 12

\* chr(65 + i - 1) is Capitals[i]
Capitals ==
  <<"A", "B", "C", "D", "E", "F", "G", "H", "I", "J", "K", "L", "M", "N", "O", "P", "Q",
    "R", "S", "T", "U", "V", "W", "X", "Y", "Z">>
Digits == <<"0", "1", "2", "3", "4", "5", "6", "7", "8", "9">>
\* the position of a character in a list of characters, 0 when it is not in it
PosIn(list, ch) == IF \E i \in 1..Len(list) : list[i] = ch
                   THEN CHOOSE i \in 1..Len(list) : list[i] = ch ELSE 0

RECURSIVE py_str(_)
\* str(n) of an integer n >= 0
py_str(n) == IF n < 10 THEN <<Digits[n + 1]>> ELSE Append(py_str(n \div 10), Digits[(n % 10) + 1])

RECURSIVE py_int(_)
\* int(chars) of a string of digits
py_int(chars) ==
  IF Len(chars) = 1 THEN PosIn(Digits, chars[1]) - 1
  ELSE py_int(SubSeq(chars, 1, Len(chars) - 1)) * 10 + PosIn(Digits, chars[Len(chars)]) - 1

RECURSIVE cell_letters(_, _)
\* the while loop of get_cell_format_position: cell, rest = divmod(cell, 26)
cell_letters(cell, chars) ==
  IF cell < 0 THEN chars
  ELSE LET rest == cell % 26
           more == Append(chars, Capitals[rest + 1])
       IN IF cell \div 26 = 0 THEN more ELSE cell_letters(cell \div 26, more)

\* get_cell_format_position(cell, row), dollar = False
get_cell_format_position(cell, row) == cell_letters(cell - 1, <<>>) \o py_str(row)

\* get_cell_alphas(rvalue): the letters the reference starts with
get_cell_alphas(ref) ==
  LET stops == {i \in 1..Len(ref) : PosIn(Capitals, ref[i]) = 0}
  IN IF stops = {} THEN ref
     ELSE SubSeq(ref, 1, (CHOOSE i \in stops : \A j \in stops : i <= j) - 1)

\* get_cell_digits(rvalue): the digits the reference ends with
get_cell_digits(ref) ==
  LET stops == {i \in 1..Len(ref) : PosIn(Digits, ref[i]) = 0}
  IN IF stops = {} THEN ref
     ELSE SubSeq(ref, (CHOOSE i \in stops : \A j \in stops : i >= j) + 1, Len(ref))

RECURSIVE cell_value(_, _, _, _)
\* the for loop of get_cell_num over chars, from the i-th on
cell_value(chars, i, mul, value) ==
  IF i > Len(chars) THEN value
  ELSE LET pos == PosIn(Capitals, chars[i]) - 1
       IN cell_value(chars, i + 1, mul - 1,
                     IF mul = 0 THEN value + pos ELSE value + ((pos + 1) * 26 * mul))

\* get_cell_num(rvalue)
get_cell_num(ref) ==
  LET chars == get_cell_alphas(ref)
  IN IF Len(chars) - 1 < 0 THEN 0 ELSE cell_value(chars, 1, Len(chars) - 1, 0) + 1

\* get_row_num(rvalue)
get_row_num(ref) ==
  LET chars == get_cell_digits(ref)
  IN IF Len(chars) = 0 THEN 0 ELSE py_int(chars)

\* a column number and a row number to convert
InitCells ==
  /\ engine = "cells"
  /\ cell_pos \in [cell : 1..MaxCell, row : 1..MaxRow]
  /\ rvalue = <<>> /\ cell_read = NoCell
  /\ elements = <<>> /\ idx = 0 /\ template = <<>> /\ out = <<>>
  /\ default_params = EmptyMap /\ data = EmptyMap
  /\ access_ok_param_list = <<>> /\ access_err_param_list = <<>>
  /\ max_id = 0 /\ error = "none"
  /\ markup = <<>> /\ source = <<>> /\ tree = <<>> /\ written = <<>>
  /\ xmlPhase = "idle"
  /\ runs = <<>> /\ collapsePasses = 0 /\ afterFirst = <<>>
  /\ NoTree /\ NoParts /\ NoSearch /\ NoStyles /\ NoNumbering

CellsFrame ==
  UNCHANGED <<docVars, xmlVars, colVars, heapVars, partVars, statusVars, styleVars, numVars>>

\* rvalue = get_cell_format_position(cell, row)
GetCellFormatPosition ==
  /\ engine = "cells" /\ rvalue = <<>>
  /\ rvalue' = get_cell_format_position(cell_pos.cell, cell_pos.row)
  /\ UNCHANGED <<cell_pos, cell_read>> /\ CellsFrame

\* get_cell_num(rvalue) and get_row_num(rvalue)
ReadCell ==
  /\ engine = "cells" /\ rvalue # <<>> /\ cell_read = NoCell
  /\ cell_read' = [cell |-> get_cell_num(rvalue), row |-> get_row_num(rvalue)]
  /\ UNCHANGED <<cell_pos, rvalue>> /\ CellsFrame

NextCells == GetCellFormatPosition \/ ReadCell

SpecCells == InitCells /\ [][NextCells]_vars

RECURSIVE ColumnName(_)
\* the spreadsheet name of column n: A..Z, AA..AZ, BA.., ZZ, AAA..
ColumnName(n) ==
  IF n <= 26 THEN <<Capitals[n]>>
  ELSE Append(ColumnName((n - 1) \div 26), Capitals[((n - 1) % 26) + 1])

\* C30: the reference get_cell_format_position(n, r) makes is the spreadsheet
\* name of column n followed by r (27 is AA), and get_cell_num and
\* get_row_num read n and r back from it, for the columns of one, two and
\* three letters.
C30_CellReferenceRoundTrip ==
  /\ rvalue # <<>> => rvalue = ColumnName(cell_pos.cell) \o py_str(cell_pos.row)
  /\ cell_read # NoCell => cell_read = cell_pos

=============================================================================
